---------------------------- MODULE Spec2Model ----------------------------
(***************************************************************************)
(* A model of the RateCroft / MortgageWise rates API (src/server.js and    *)
(* the earlier server source src/unnamed/part_000):                       *)
(* the FRED series cache and fallback resolver, the rate derivation, the   *)
(* loan calculator and the lender-quote entry point.                       *)
(*                                                                         *)
(* Numbers.  The program computes in IEEE-754 doubles.  A decimal string   *)
(* such as "6.76" is carried in the model as the integer of its            *)
(* thousandths (6760) or hundredths (676); where the program does double   *)
(* arithmetic whose rounding can matter (deriveRates, the PMI amount) the  *)
(* model computes the doubles exactly: a positive double is the integer    *)
(* count of units of 2^-FracBits it is worth, held as a little-endian      *)
(* sequence of limbs because TLC's integers are 32 bits wide.              *)
(***************************************************************************)
EXTENDS Integers, Sequences, FiniteSets, TLC

-----------------------------------------------------------------------------
(* Exact non-negative integers of any size: little-endian limbs, no zero   *)
(* limb at the top, zero is the empty sequence.                            *)

\* one bit short of 16, so that a limb times a 16-bit factor fits TLC's integers
LimbBits == 16 - 1
LimbBase == 2^LimbBits

RECURSIVE BNorm(_)
BNorm(a) ==
  IF a = <<>> THEN <<>>
  ELSE IF a[Len(a)] = 0 THEN BNorm(SubSeq(a, 1, Len(a) - 1))
  ELSE a

RECURSIVE BFromInt(_)
BFromInt(n) ==
  IF n = 0 THEN <<>> ELSE <<n % LimbBase>> \o BFromInt(n \div LimbBase)

RECURSIVE BToInt(_)
BToInt(a) ==
  IF a = <<>> THEN 0 ELSE a[1] + LimbBase * BToInt(Tail(a))

RECURSIVE BMulC(_, _, _)
BMulC(a, s, c) ==
  IF a = <<>> THEN BFromInt(c)
  ELSE LET t == a[1] * s + c
       IN  <<t % LimbBase>> \o BMulC(Tail(a), s, t \div LimbBase)

\* a * s for a small multiplier s (at most LimbBase)
BMulS(a, s) == BNorm(BMulC(a, s, 0))

RECURSIVE DivBits(_, _, _, _)
\* long division of the k low bits of limb, high bit first, into remainder r
DivBits(r, limb, s, k) ==
  IF k = 0 THEN [q |-> 0, r |-> r]
  ELSE LET bit == (limb \div 2^(k - 1)) % 2
           t   == 2 * r + bit
           lo  == DivBits(IF t >= s THEN t - s ELSE t, limb, s, k - 1)
       IN  [q |-> (IF t >= s THEN 2^(k - 1) ELSE 0) + lo.q, r |-> lo.r]

RECURSIVE BDivR(_, _)
BDivR(a, s) ==
  IF a = <<>> THEN [q |-> <<>>, r |-> 0]
  ELSE LET hi == BDivR(Tail(a), s)
           t  == hi.r * LimbBase + a[1]
           d  == IF s <= LimbBase THEN [q |-> t \div s, r |-> t % s]
                 ELSE DivBits(hi.r, a[1], s, LimbBits)
       IN  [q |-> <<d.q>> \o hi.q, r |-> d.r]

\* quotient and remainder of a by a divisor s below 2^30
BDivS(a, s) == LET d == BDivR(a, s) IN [q |-> BNorm(d.q), r |-> d.r]

RECURSIVE BAddC(_, _, _)
BAddC(a, b, c) ==
  IF a = <<>> /\ b = <<>> THEN BFromInt(c)
  ELSE LET x == IF a = <<>> THEN 0 ELSE a[1]
           y == IF b = <<>> THEN 0 ELSE b[1]
           t == x + y + c
       IN  <<t % LimbBase>>
             \o BAddC(IF a = <<>> THEN <<>> ELSE Tail(a),
                      IF b = <<>> THEN <<>> ELSE Tail(b), t \div LimbBase)

BAdd(a, b) == BNorm(BAddC(a, b, 0))

RECURSIVE BSubC(_, _, _)
BSubC(a, b, c) ==
  IF a = <<>> THEN <<>>
  ELSE LET y == IF b = <<>> THEN 0 ELSE b[1]
           t == a[1] - y - c
       IN  <<IF t < 0 THEN t + LimbBase ELSE t>>
             \o BSubC(Tail(a), IF b = <<>> THEN <<>> ELSE Tail(b),
                      IF t < 0 THEN 1 ELSE 0)

\* a - b, for a >= b
BSub(a, b) == BNorm(BSubC(a, b, 0))

RECURSIVE BCmpFrom(_, _, _)
BCmpFrom(a, b, i) ==
  IF i = 0 THEN 0
  ELSE IF a[i] > b[i] THEN 1
  ELSE IF a[i] < b[i] THEN -1
  ELSE BCmpFrom(a, b, i - 1)

\* -1, 0 or 1 as a <, =, > b
BCmp(a, b) ==
  IF Len(a) > Len(b) THEN 1
  ELSE IF Len(a) < Len(b) THEN -1
  ELSE BCmpFrom(a, b, Len(a))

RECURSIVE SmallBits(_)
SmallBits(n) == IF n = 0 THEN 0 ELSE 1 + SmallBits(n \div 2)

\* the number of binary digits of a
BBits(a) ==
  IF a = <<>> THEN 0 ELSE LimbBits * (Len(a) - 1) + SmallBits(a[Len(a)])

RECURSIVE Zeros(_)
Zeros(n) == IF n = 0 THEN <<>> ELSE <<0>> \o Zeros(n - 1)

\* a * 2^n
BShl(a, n) ==
  IF a = <<>> THEN <<>>
  ELSE Zeros(n \div LimbBits) \o BMulS(a, 2^(n % LimbBits))

\* floor(a / 2^n)
BShr(a, n) ==
  LET w == n \div LimbBits
      b == n % LimbBits
  IN  IF w >= Len(a) THEN <<>>
      ELSE BNorm([i \in 1..(Len(a) - w) |->
                   (a[i + w] \div 2^b)
                     + ((IF i + w < Len(a) THEN a[i + w + 1] ELSE 0) % 2^b)
                         * 2^(LimbBits - b)])

-----------------------------------------------------------------------------
(* IEEE-754 doubles (positive, normal), each the exact count of units of   *)
(* 2^-FracBits it is worth.                                                *)

FracBits == 80
\* the significand of a double: 52 stored bits and the hidden one
Significand == 52 + 1

\* round-to-nearest, ties-to-even, of the exact value n (+ a non-zero
\* fraction of a unit when sticky) to a double
RoundToDouble(n, sticky) ==
  LET s == BBits(n) - Significand
  IN  IF s <= 0 THEN n
      ELSE LET q    == BShr(n, s)
               rem  == BSub(n, BShl(q, s))
               half == BShl(<<1>>, s - 1)
               c    == BCmp(rem, half)
               up   == \/ c > 0
                       \/ c = 0 /\ (sticky \/ (q # <<>> /\ q[1] % 2 = 1))
           IN  BShl(IF up THEN BAdd(q, <<1>>) ELSE q, s)

\* the double nearest to n/d, for whole numbers n >= 0 and 0 < d < 2^30:
\* the quotient of two whole doubles, correctly rounded
FQuot(n, d) ==
  LET x == BDivS(BShl(BFromInt(n), FracBits), d)
  IN  RoundToDouble(x.q, x.r # 0)

\* the double a decimal literal or string n/scale denotes (parseFloat, unary +)
ParseDecimal(n, scale) == FQuot(n, scale)

\* x + y and x - y (x >= y) in double arithmetic
FAdd(x, y) == RoundToDouble(BAdd(x, y), FALSE)
FSub(x, y) == RoundToDouble(BSub(x, y), FALSE)

RECURSIVE BMulInt(_, _)
\* a * k for any whole number k >= 0
BMulInt(a, k) ==
  IF k < LimbBase THEN BMulS(a, k)
  ELSE BAdd(BShl(BMulInt(a, k \div LimbBase), LimbBits), BMulS(a, k % LimbBase))

\* x * k and x / k in double arithmetic, k a whole number (a whole double)
FMulInt(x, k) == RoundToDouble(BMulInt(x, k), FALSE)
FDivInt(x, k) == LET d == BDivS(x, k) IN RoundToDouble(d.q, d.r # 0)

\* Number.prototype.toFixed: the integer n with n/scale nearest to x, the
\* larger one at a tie; the string it prints is n/scale in decimal
ToFixed(x, scale) ==
  LET n    == BMulS(x, scale)
      q    == BShr(n, FracBits)
      rem  == BSub(n, BShl(q, FracBits))
      half == BShl(<<1>>, FracBits - 1)
  IN  BToInt(q) + (IF BCmp(rem, half) >= 0 THEN 1 ELSE 0)


-----------------------------------------------------------------------------
(* Doubles of either sign, for the calculators and the lender quotes: a    *)
(* record of the sign and the magnitude, the magnitude as above.  Zero is  *)
(* [neg |-> FALSE, mag |-> <<>>].  The magnitudes that occur are either    *)
(* zero or above 2^(Significand - FracBits), so every bit of them is kept. *)

RECURSIVE BMulFrom(_, _, _, _)
\* acc * LimbBase^k + a * (the k low limbs of b)
BMulFrom(acc, a, b, k) ==
  IF k = 0 THEN acc
  ELSE IF acc = <<>> /\ b[k] = 0 THEN BMulFrom(<<>>, a, b, k - 1)
  ELSE BMulFrom(BAdd(BNorm(<<0>> \o acc), BMulS(a, b[k])), a, b, k - 1)

\* a * b
BMul(a, b) == IF a = <<>> THEN <<>> ELSE BMulFrom(<<>>, a, b, Len(b))

\* limb i of a, 0 beyond its top
Limb(a, i) == IF i <= Len(a) THEN a[i] ELSE 0

RECURSIVE QuotientLimb(_, _, _)
\* the largest d with d * b <= t, none smaller than the estimate d
QuotientLimb(t, b, d) ==
  IF BCmp(BMulS(b, d + 1), t) <= 0 THEN QuotientLimb(t, b, d + 1) ELSE d

RECURSIVE BDivFrom(_, _, _, _, _)
\* long division of the k low limbs of a by b, high limb first, after the
\* higher limbs gave the quotient q and the remainder r; the top limb of b
\* is at least LimbBase / 2, so that the estimate of a quotient limb from
\* the top limbs is at most 3 short
BDivFrom(q, r, a, b, k) ==
  IF k = 0 THEN [q |-> q, r |-> r]
  ELSE LET step(t, d) ==
             IF t = <<>> THEN BDivFrom(<<0>> \o q, <<>>, a, b, k - 1)
             ELSE BDivFrom(<<d>> \o q, BSub(t, BMulS(b, d)), a, b, k - 1)
           top(t)  == Limb(t, Len(b) + 1) * LimbBase + Limb(t, Len(b))
           limb(t) == step(t, QuotientLimb(t, b, top(t) \div (b[Len(b)] + 1)))
       IN  limb(BNorm(<<a[k]>> \o r))

\* floor(a / b), and whether it is exact: b # 0
BDiv(a, b) ==
  LET result(d)     == [q |-> BNorm(d.q), exact |-> d.r = <<>>]
      divide(as, bs) == result(BDivFrom(<<>>, <<>>, as, bs, Len(as)))
      shifted(s)     == divide(BShl(a, s), BShl(b, s))
  IN  shifted(LimbBits - SmallBits(b[Len(b)]))

DZero == [neg |-> FALSE, mag |-> <<>>]
DOne  == [neg |-> FALSE, mag |-> BShl(<<1>>, FracBits)]

\* a double from its magnitude: there is one zero in the model
DMake(neg, mag) == IF mag = <<>> THEN DZero ELSE [neg |-> neg, mag |-> mag]

\* the double a decimal literal or string n/scale denotes, n of either sign
DNum(n, scale) ==
  IF n < 0 THEN DMake(TRUE, ParseDecimal(-n, scale))
  ELSE DMake(FALSE, ParseDecimal(n, scale))

DNeg(x) == DMake(~x.neg, x.mag)

\* x + y, x - y, x * y, x / y (y # 0) in double arithmetic
DAdd(x, y) ==
  IF x.neg = y.neg THEN DMake(x.neg, FAdd(x.mag, y.mag))
  ELSE IF BCmp(x.mag, y.mag) >= 0 THEN DMake(x.neg, FSub(x.mag, y.mag))
  ELSE DMake(y.neg, FSub(y.mag, x.mag))
DSub(x, y) == DAdd(x, DNeg(y))
DMul(x, y) ==
  LET round(p, q) == DMake(x.neg # y.neg,
                           RoundToDouble(q, BShl(q, FracBits) # p))
      product(p)  == round(p, BShr(p, FracBits))
  IN  product(BMul(x.mag, y.mag))
DDiv(x, y) ==
  LET round(d) == DMake(x.neg # y.neg, RoundToDouble(d.q, ~d.exact))
  IN  round(BDiv(BShl(x.mag, FracBits), y.mag))

\* x > 0
DPositive(x) == ~x.neg /\ x.mag # <<>>

RECURSIVE PowFixed(_, _)
\* x^n for a magnitude x and a whole n >= 0, carried to 2^-FracBits
PowFixed(x, n) ==
  IF n = 0 THEN DOne.mag
  ELSE LET odd(sq)  == IF n % 2 = 1 THEN BShr(BMul(sq, x), FracBits) ELSE sq
           square(h) == IF h = <<>> THEN <<>>
                        ELSE odd(BShr(BMul(h, h), FracBits))
       IN  square(PowFixed(x, n \div 2))

\* Math.pow(x, n) for x > 0 and a whole n >= 0: the double nearest the power
\* (Math.pow is accurate to within a unit in the last place)
DPow(x, n) ==
  IF x.mag = <<>> THEN (IF n = 0 THEN DOne ELSE DZero)
  ELSE DMake(FALSE, RoundToDouble(PowFixed(x.mag, n), TRUE))

\* Number.prototype.toFixed read back as a number: the integer n with
\* n/scale nearest to x, the one farther from zero at a tie
DToFixed(x, scale) ==
  IF x.neg THEN -ToFixed(x.mag, scale) ELSE ToFixed(x.mag, scale)

\* Math.round: floor(x + 0.5)
DRound(x) ==
  LET half        == BShl(<<1>>, FracBits - 1)
      round(q, c) == IF x.neg THEN -(q + (IF c > 0 THEN 1 ELSE 0))
                     ELSE q + (IF c >= 0 THEN 1 ELSE 0)
      whole(q)    == round(BToInt(q),
                           BCmp(BSub(x.mag, BShl(q, FracBits)), half))
  IN  whole(BShr(x.mag, FracBits))

\* Math.ceil
DCeil(x) ==
  LET whole(q) == IF x.neg THEN -BToInt(q)
                  ELSE BToInt(q) + (IF BShl(q, FracBits) # x.mag THEN 1 ELSE 0)
  IN  whole(BShr(x.mag, FracBits))
-----------------------------------------------------------------------------
VARIABLES
  HAS_KEY,    \* whether FRED_API_KEY is set (fixed when the process starts)
  server,     \* the source file that runs: "server.js" or "part_000"
  now,        \* the wall clock, in seconds
  cache,      \* the NodeCache instance: key -> entry
  req,        \* the HTTP requests and direct fetchFredSeries callers in progress
  nRequests,  \* requests started so far
  nUpstream,  \* axios requests sent to FRED so far
  memo,       \* the arithmetic of the handlers on the values FRED can send
  call,       \* the pure entry point being exercised and its arguments
  ret,        \* what it returned (NoRet before it ran)
  HAS_SMTP,   \* whether SMTP_USER and SMTP_PASS are set (fixed at start)
  ALERTS_FILE, \* the content of data/alerts.json: the list of alerts
  outbox      \* the messages mailer.sendMail has accepted, in order

vars == <<HAS_KEY, server, now, cache, req, nRequests, nUpstream, memo, call, ret, HAS_SMTP, ALERTS_FILE, outbox>>

NoRet == [done |-> FALSE]

\* no mail transport, no alert on file, nothing sent
NoAlerts ==
  /\ HAS_SMTP = FALSE
  /\ ALERTS_FILE = <<>>
  /\ outbox = <<>>

-----------------------------------------------------------------------------
(* Rate derivation (deriveRates).  base30 is a double; every derived rate  *)
(* is the hundredths n that +(...).toFixed(2) prints and parses back.      *)

\* deriveRates with rate_jumbo30 given the offset of rate_cashout
deriveRatesWide(base30) ==
  [ rate_20yr    |-> ToFixed(FSub(base30, ParseDecimal(25, 100)), 100),
    rate_fha30   |-> ToFixed(FSub(base30, ParseDecimal(25, 100)), 100),
    rate_va30    |-> ToFixed(FSub(base30, ParseDecimal(50, 100)), 100),
    rate_usda30  |-> ToFixed(FSub(base30, ParseDecimal(30, 100)), 100),
    rate_jumbo30 |-> ToFixed(FAdd(base30, ParseDecimal(30, 100)), 100),
    rate_arm71   |-> ToFixed(FSub(base30, ParseDecimal(40, 100)), 100),
    rate_cashout |-> ToFixed(FAdd(base30, ParseDecimal(30, 100)), 100) ]
deriveRates(base30) ==
  [ rate_20yr    |-> ToFixed(FSub(base30, ParseDecimal(25, 100)), 100),
    rate_fha30   |-> ToFixed(FSub(base30, ParseDecimal(25, 100)), 100),
    rate_va30    |-> ToFixed(FSub(base30, ParseDecimal(50, 100)), 100),
    rate_usda30  |-> ToFixed(FSub(base30, ParseDecimal(30, 100)), 100),
    rate_jumbo30 |-> ToFixed(FAdd(base30, ParseDecimal(25, 100)), 100),
    rate_arm71   |-> ToFixed(FSub(base30, ParseDecimal(40, 100)), 100),
    rate_cashout |-> ToFixed(FAdd(base30, ParseDecimal(30, 100)), 100) ]

-----------------------------------------------------------------------------
(* GET /api/calculate.  price and down are whole-dollar query strings;     *)
(* the response carries the loan amount, ltv in tenths of a percent        *)
(* (+ltv.toFixed(1)), pmi in cents and pmi_required.                       *)

\* the LTV, in percent, above which PMI is charged
PMI_LTV == 80

\* ltv >= 80 in place of ltv > 80
PmiAppliesGE(ltv) == BCmp(ltv, BShl(BFromInt(PMI_LTV), FracBits)) >= 0
\* ltv > 80, ltv a double
PmiApplies(ltv) == BCmp(ltv, BShl(BFromInt(PMI_LTV), FracBits)) > 0

\* +(principal * 0.01 / 12).toFixed(2), in cents
PmiAmount(principal) ==
  ToFixed(FDivInt(FMulInt(ParseDecimal(1, 100), principal), 12), 100)

calculate(price, down) ==
  LET principal == price - down
  IN  IF principal <= 0
      THEN [done |-> TRUE, status |-> 400,
            error |-> "Down payment cannot exceed price"]
      ELSE LET ltv == FMulInt(FQuot(principal, price), 100)
               pmi == IF PmiApplies(ltv) THEN PmiAmount(principal) ELSE 0
           IN  [done |-> TRUE, status |-> 200, amount |-> principal,
                ltv |-> ToFixed(ltv, 10), pmi |-> pmi,
                pmi_required |-> PmiApplies(ltv)]

-----------------------------------------------------------------------------
(* GET /api/lender-quotes: the entry of the handler, up to the roster      *)
(* filter.  fetch is what the two fetchFredSeries calls did ("ok", or      *)
(* "throws" when one rejected).                                            *)

LENDERS ==
  << [id |-> "rocket",     minCredit |-> 580],
     [id |-> "uwm",        minCredit |-> 620],
     [id |-> "loanDepot",  minCredit |-> 620],
     [id |-> "newrez",     minCredit |-> 620],
     [id |-> "penfed",     minCredit |-> 650],
     [id |-> "bof a",      minCredit |-> 620],
     [id |-> "chase",      minCredit |-> 620],
     [id |-> "wells",      minCredit |-> 620],
     [id |-> "better",     minCredit |-> 620],
     [id |-> "guaranteed", minCredit |-> 580],
     [id |-> "ally",       minCredit |-> 620],
     [id |-> "flagstar",   minCredit |-> 580] >>

\* sorted.slice(0, 8)
MaxQuotes == 8

\* every lender, whatever its minCredit
EligibleAny(creditScore) == LENDERS

Eligible(creditScore) ==
  SelectSeq(LENDERS, LAMBDA l : creditScore >= l.minCredit)

lenderQuotes(price, down, creditScore, fetch) ==
  LET loan     == price - down
      eligible == Eligible(creditScore)
      nquotes  == IF Len(eligible) < MaxQuotes THEN Len(eligible) ELSE MaxQuotes
  IN  IF fetch = "throws"
      THEN [done |-> TRUE, status |-> 500, error |-> "upstream"]
      ELSE IF nquotes = 0
      \* quotes[0].badge = ... on an empty array throws a TypeError
      THEN [done |-> TRUE, status |-> 500, error |-> "TypeError"]
      ELSE [done |-> TRUE, status |-> 200, loan |-> loan, quotes |-> nquotes]


-----------------------------------------------------------------------------
(* The payment formula, and the amortization walk of GET /api/calculate.   *)
(* Money is whole dollars in the query and cents in the response; rate is  *)
(* the annual rate in hundredths of a percent ("6.75" is 675); term is a   *)
(* whole number of years.                                                  *)

\* what JSON.stringify prints as null: the number Infinity, and null itself
Infinity == 2^30
Null == -(2^30) - 1

\* parseFloat(rate) / 100 / 12
MonthlyRate(rate) == DDiv(DDiv(DNum(rate, 100), DNum(100, 1)), DNum(12, 1))

\* r > 0 ? bal*(r*Math.pow(1+r,n))/(Math.pow(1+r,n)-1) : bal/n, for n >= 1
Payment(bal, r, n) ==
  IF DPositive(r)
  THEN LET pow == DPow(DAdd(DOne, r), n)
       IN  DDiv(DMul(bal, DMul(r, pow)), DSub(pow, DOne))
  ELSE DDiv(bal, DNum(n, 1))

\* the pmt helper of /api/refinance
pmt(bal, rt, yrs) == Payment(bal, MonthlyRate(rt), yrs * 12)

RECURSIVE Balances(_, _, _, _)
\* the loop of /api/calculate, every month walked: the balances after the
\* months 0..n, given those after the months walked so far (element i + 1
\* is the balance after month i)
Balances(walked, r, pi, n) ==
  IF Len(walked) > n THEN walked
  ELSE LET balance  == walked[Len(walked)]
           interest == DMul(balance, r)
           prn      == DSub(pi, interest)
       IN  Balances(Append(walked, DSub(balance, prn)), r, pi, n)

\* Math.max(0, balance)
Max0(x) == IF x.neg THEN DZero ELSE x

\* if (i <= 24 || i % 12 === 0)
FullMonths == 24
YearMonths == 12
Reported(i) == i <= FullMonths \/ i % YearMonths = 0

\* the row pushed for month i
Row(balances, r, pi, i) ==
  LET interest == DMul(balances[i], r)
      prn      == DSub(pi, interest)
  IN  [month     |-> i,
       payment   |-> DToFixed(pi, 100),
       principal |-> DToFixed(prn, 100),
       interest  |-> DToFixed(interest, 100),
       balance   |-> DToFixed(Max0(balances[i + 1]), 100)]

\* the months of 1..n that are reported, in the order the loop meets them
Months(n) == SelectSeq([i \in 1..n |-> i], Reported)

\* the rows of a walk that steps from one reported month to the next
scheduleSkipping(balances, r, pi, n) ==
  LET months == Months(n)
      b      == Balances(<<balances[1]>>, r, pi, Len(months))
  IN  [k \in 1..Len(months) |->
         [Row(b, r, pi, k) EXCEPT !.month = months[k]]]

\* schedule, as the loop leaves it
schedule(balances, r, pi, n) ==
  LET months == Months(n)
  IN  [k \in 1..Len(months) |-> Row(balances, r, pi, months[k])]

\* the amortization of an accepted request (principal > 0): the payment and
\* the schedule of the response, and the walk behind it (walk[i] is the
\* balance after month i in cents, to the nearest cent)
amortization(principal, rate, term) ==
  LET r  == MonthlyRate(rate)
      n  == term * 12
      p  == DNum(principal, 1)
  IN  IF n = 0
      \* a division by zero: pi is Infinity and the loop does not run
      THEN [done |-> TRUE, status |-> 200, principal_interest |-> Infinity,
            amortization |-> <<>>, walk |-> <<>>,
            balance |-> 100 * principal]
      ELSE LET pi       == Payment(p, r, n)
               balances == Balances(<<p>>, r, pi, n)
           IN  [done |-> TRUE, status |-> 200,
                principal_interest |-> DToFixed(pi, 100),
                amortization |-> schedule(balances, r, pi, n),
                walk |-> [i \in 1..n |-> DToFixed(balances[i + 1], 100)],
                balance |-> DToFixed(balances[n + 1], 100)]

-----------------------------------------------------------------------------
(* GET /api/affordability and GET /api/refinance.  dti_limit is a whole    *)
(* percentage; the terms are whole numbers of years, at least 1.           *)

\* the housing ratio of the conservative branch, in percent
CONSERVATIVE_DTI == 28

\* r > 0 ? r*Math.pow(1+r,n)/(Math.pow(1+r,n)-1) : 1/n
Factor(r, n) ==
  IF DPositive(r)
  THEN LET pow == DPow(DAdd(DOne, r), n)
       IN  DDiv(DMul(r, pow), DSub(pow, DOne))
  ELSE DDiv(DOne, DNum(n, 1))

\* the figures of one branch: what the budget avail buys at the factor f
Branch(avail, f, down, dti) ==
  [max_home_price  |-> DRound(DAdd(DDiv(avail, f), down)),
   max_loan        |-> DRound(DDiv(avail, f)),
   monthly_payment |-> DToFixed(avail, 100),
   dti             |-> dti]

\* an affordability whose two branches are one formula: the conservative
\* budget follows the caller's ceiling too
affordabilityOneFormula(annual_income, monthly_debts, down_payment, rate, term, dti_limit) ==
  LET mo == DDiv(DNum(annual_income, 1), DNum(12, 1))
      f  == Factor(MonthlyRate(rate), term * 12)
      share == DMul(mo, DDiv(DNum(dti_limit, 1), DNum(100, 1)))
      down  == DNum(down_payment, 1)
  IN  [done |-> TRUE, status |-> 200,
       recommended |->
         Branch(DSub(share, DNum(monthly_debts, 1)), f, down, dti_limit),
       conservative |-> Branch(share, f, down, CONSERVATIVE_DTI),
       monthly_income |-> DToFixed(mo, 100)]

affordability(annual_income, monthly_debts, down_payment, rate, term, dti_limit) ==
  LET mo      == DDiv(DNum(annual_income, 1), DNum(12, 1))
      f       == Factor(MonthlyRate(rate), term * 12)
      avail43 == DSub(DMul(mo, DDiv(DNum(dti_limit, 1), DNum(100, 1))),
                      DNum(monthly_debts, 1))
      avail28 == DMul(mo, DNum(CONSERVATIVE_DTI, 100))
      down    == DNum(down_payment, 1)
  IN  [done |-> TRUE, status |-> 200,
       recommended  |-> Branch(avail43, f, down, dti_limit),
       conservative |-> Branch(avail28, f, down, CONSERVATIVE_DTI),
       monthly_income |-> DToFixed(mo, 100)]

\* beMo ? x : y, for beMo a number or null: 0 is falsy
Truthy(beMo) == beMo # Null /\ beMo # 0

refinance(current_balance, current_rate, new_rate, remaining_term, new_term, closing_costs) ==
  LET respond(currPmt, newPmt, savings, costs, beMo, intSave) ==
        [done |-> TRUE, status |-> 200,
         monthly |->
           [current_payment |-> DToFixed(currPmt, 100),
            new_payment     |-> DToFixed(newPmt, 100),
            monthly_savings |-> DToFixed(savings, 100)],
         breakeven |->
           [months   |-> beMo,
            years    |-> IF Truthy(beMo)
                         THEN DToFixed(DDiv(DNum(beMo, 1), DNum(12, 1)), 10)
                         ELSE Null,
            worth_it |-> IF Truthy(beMo) THEN beMo < new_term * 12 ELSE FALSE],
         lifetime |->
           [interest_savings |-> DToFixed(intSave, 100),
            net_savings_after_costs |-> DToFixed(DSub(intSave, costs), 100)],
         \* savings > 0 as the handler saw it, before any rounding
         saves |-> DPositive(savings)]
      \* the handler from const beMo on
      breakeven(bal, currPmt, newPmt, savings, costs) ==
        respond(currPmt, newPmt, savings, costs,
                IF DPositive(savings) THEN DCeil(DDiv(costs, savings)) ELSE Null,
                DSub(DSub(DMul(DMul(currPmt, DNum(remaining_term, 1)),
                               DNum(12, 1)), bal),
                     DSub(DMul(DMul(newPmt, DNum(new_term, 1)),
                               DNum(12, 1)), bal)))
      \* the handler from const savings on
      compare(bal, currPmt, newPmt) ==
        breakeven(bal, currPmt, newPmt, DSub(currPmt, newPmt),
                  DNum(closing_costs, 1))
      \* the handler from const currPmt on
      payments(bal) ==
        compare(bal, pmt(bal, current_rate, remaining_term),
                pmt(bal, new_rate, new_term))
  IN  payments(DNum(current_balance, 1))

-----------------------------------------------------------------------------
(* The FRED configuration and the static fallback table.  Rates and        *)
(* changes are in thousandths of a percent.                                *)

FRED_SERIES ==
  [ rate_30yr  |-> "MORTGAGE30US",
    rate_15yr  |-> "MORTGAGE15US",
    treasury10 |-> "DGS10",
    fed_funds  |-> "FEDFUNDS",
    prime_rate |-> "DPRIME" ]

FALLBACK ==
  [ rate_30yr  |-> [value |-> 6760, change |-> -40, date |-> "2026-02-20"],
    rate_15yr  |-> [value |-> 6030, change |-> -30, date |-> "2026-02-20"],
    rate_arm51 |-> [value |-> 6150, change |-> -60, date |-> "2026-02-20"],
    treasury10 |-> [value |-> 4280, change |->  50, date |-> "2026-02-27"],
    fed_funds  |-> [value |-> 5330, change |->   0, date |-> "2026-02-01"],
    prime_rate |-> [value |-> 8500, change |->   0, date |-> "2026-02-01"] ]

\* FALLBACK[key] || { value: 6.75, change: 0, date: "2026-02-20" }
DefaultFallback == [value |-> 6750, change |-> 0, date |-> "2026-02-20"]

SeriesIds == {FRED_SERIES[k] : k \in DOMAIN FRED_SERIES}
\* an id no key of FRED_SERIES maps to (the discontinued 5/1 ARM series)
OtherIds  == {"MORTGAGE5US"}
AllIds    == SeriesIds \cup OtherIds

\* the two server sources of the repository; part_000 is the earlier one,
\* whose FRED_SERIES also maps rate_arm51 to MORTGAGE5US
Servers == {"server.js", "part_000"}

\* stdTTL of the NodeCache and the ttl of the aggregate responses, in seconds
STD_TTL == 3600
AGG_TTL == 3600

CacheKey(seriesId) == "fred_" \o seriesId
CacheKeys == {CacheKey(id) : id \in AllIds} \cup {"all_rates", "summary", "today_rates"}

NoEntry == [set |-> FALSE]

\* cache.set(key, v, ttl) at time t: node-cache stores the expiry t + ttl
\* (at is the time of the write, kept for the record)
CacheSet(c, key, v, ttl, t) ==
  [c EXCEPT ![key] = [set |-> TRUE, v |-> v, t |-> t + ttl, at |-> t]]

\* an entry dropped already when its expiry equals the clock
CachedStrict(c, key, t) == c[key].set /\ c[key].t > t
\* cache.get(key) at time t returns a value: node-cache drops an entry once
\* its expiry is earlier than the clock
Cached(c, key, t) == c[key].set /\ ~(c[key].t < t)

-----------------------------------------------------------------------------
(* What FRED can answer: a failure (timeout, transport error, non-2xx) or  *)
(* a list of observations, newest first, whose value is a decimal string   *)
(* or the missing-value sentinel ".".                                      *)

Feeds ==
  { << [date |-> "2026-03-05", value |-> "."] >>,
    << [date |-> "2026-03-05", value |-> "."],
       [date |-> "2026-02-26", value |-> "6.50"] >>,
    << [date |-> "2026-03-05", value |-> "6.76"],
       [date |-> "2026-02-26", value |-> "."],
       [date |-> "2026-02-19", value |-> "6.50"] >> }

UpstreamAnswers ==
  {[ok |-> FALSE]} \cup {[ok |-> TRUE, observations |-> f] : f \in Feeds}

NaN == -(2^30)

\* parseFloat of an observation's value, in thousandths
Milli(str) ==
  CASE str = "6.76" -> 6760
    [] str = "6.50" -> 6500
    [] OTHER        -> NaN

\* the values the feeds carry
FeedValues ==
  UNION {{Milli(f[i].value) : i \in DOMAIN f} : f \in Feeds} \ {NaN}

\* (a - b).toFixed(3) read back as a number, in thousandths
Difference(a, b) ==
  IF a >= b
  THEN ToFixed(FSub(ParseDecimal(a, 1000), ParseDecimal(b, 1000)), 1000)
  ELSE -ToFixed(FSub(ParseDecimal(b, 1000), ParseDecimal(a, 1000)), 1000)

\* parseFloat((latest.value - prev.value).toFixed(3)), in thousandths
Change(latest, prev) ==
  LET a == Milli(latest)
      b == Milli(prev)
  IN  IF a = NaN \/ b = NaN THEN NaN ELSE memo.change[a][b]

\* the observations unfiltered
UsableAll(observations) == observations
\* data.observations.filter(o => o.value !== ".")
Usable(observations) == SelectSeq(observations, LAMBDA o : o.value # ".")

\* obs.slice(0, 8).map(o => ({ date, value: parseFloat(o.value) }))
HistoryLen == 8
History(obs) ==
  LET n == IF Len(obs) < HistoryLen THEN Len(obs) ELSE HistoryLen
  IN  [i \in 1..n |-> [date |-> obs[i].date, value |-> Milli(obs[i].value)]]

\* the record fetchFredSeries builds from a non-empty filtered list
LiveResult(seriesId, obs) ==
  LET latest == obs[1]
      prev   == IF Len(obs) >= 2 THEN obs[2] ELSE latest
  IN  [seriesId |-> seriesId,
       value    |-> Milli(latest.value),
       change   |-> Change(latest.value, prev.value),
       date     |-> latest.date,
       history  |-> History(obs)]

\* the no-key branch: the fallback entry of the FRED_SERIES key that maps to
\* the id, or the default
FallbackResult(seriesId) ==
  LET keys == {k \in DOMAIN FRED_SERIES : FRED_SERIES[k] = seriesId}
      fb   == IF keys = {} THEN DefaultFallback
              ELSE FALLBACK[CHOOSE k \in keys : TRUE]
  IN  [seriesId |-> seriesId, value |-> fb.value, change |-> fb.change,
       date |-> fb.date,
       history |-> << [date |-> fb.date, value |-> fb.value] >>]

-----------------------------------------------------------------------------
(* fetchFredSeries.  A call is "none" (not made), answered at once from    *)
(* the cache ("hit") or from the fallback table ("fallback"), "pending"    *)
(* on its axios request, and then "live" or "error".  sent counts the      *)
(* axios requests the call has issued, at the time a hit was served,       *)
(* answer what FRED answered.                                              *)

NoCall == [st |-> "none", sent |-> 0]

\* the part of fetchFredSeries before its await in part_000, which has no
\* fallback table
fetchStartNoFallback(c, seriesId, t) ==
  LET cacheKey == CacheKey(seriesId)
  IN  IF Cached(c, cacheKey, t)
      THEN [cache |-> c,
            res   |-> [st |-> "hit", sent |-> 0, at |-> t, rec |-> c[cacheKey].v,
                       fetched |-> c[cacheKey].at]]
      ELSE IF ~HAS_KEY
      THEN [cache |-> c,
            res   |-> [st |-> "error", sent |-> 0,
                       error |-> "FRED_API_KEY environment variable not set"]]
      ELSE [cache |-> c, res |-> [st |-> "pending", sent |-> 1]]

\* the part of fetchFredSeries before its await, run at time t on cache c
fetchStart(c, seriesId, t) ==
  LET cacheKey == CacheKey(seriesId)
  IN  IF server = "part_000" THEN fetchStartNoFallback(c, seriesId, t)
      ELSE IF Cached(c, cacheKey, t)
      THEN [cache |-> c,
            res   |-> [st |-> "hit", sent |-> 0, at |-> t, rec |-> c[cacheKey].v,
                       fetched |-> c[cacheKey].at]]
      ELSE IF ~HAS_KEY
      THEN LET result == FallbackResult(seriesId)
           IN  [cache |-> CacheSet(c, cacheKey, result, STD_TTL, t),
                res   |-> [st |-> "fallback", sent |-> 0, rec |-> result, fetched |-> t]]
      ELSE [cache |-> c, res |-> [st |-> "pending", sent |-> 1]]

\* the part after the await with the cache written before the answer is
\* looked at
fetchDoneEager(c, seriesId, t, answer) ==
  LET obs == IF answer.ok THEN Usable(answer.observations) ELSE <<>>
  IN  IF obs = <<>>
      THEN [cache |-> CacheSet(c, CacheKey(seriesId), [seriesId |-> seriesId], STD_TTL, t),
            res   |-> [st |-> "error", sent |-> 1, answer |-> answer,
                       error |-> "No data for " \o seriesId]]
      ELSE LET result == LiveResult(seriesId, obs)
           IN  [cache |-> CacheSet(c, CacheKey(seriesId), result, STD_TTL, t),
                res   |-> [st |-> "live", sent |-> 1, answer |-> answer,
                           rec |-> result, fetched |-> t]]
\* the part after the await, when FRED answered with answer
fetchDone(c, seriesId, t, answer) ==
  IF ~answer.ok
  THEN [cache |-> c,
        res   |-> [st |-> "error", sent |-> 1, answer |-> answer,
                   error |-> "upstream request failed"]]
  ELSE LET obs == Usable(answer.observations)
       IN  IF obs = <<>>
           THEN [cache |-> c,
                 res   |-> [st |-> "error", sent |-> 1, answer |-> answer,
                            error |-> "No data for " \o seriesId]]
           ELSE LET result == LiveResult(seriesId, obs)
                IN  [cache |-> CacheSet(c, CacheKey(seriesId), result, STD_TTL, t),
                     res   |-> [st |-> "live", sent |-> 1, answer |-> answer,
                                rec |-> result, fetched |-> t]]

RECURSIVE fetchAll(_, _, _, _)
\* the calls of a Promise.all([...]) array, started in order
fetchAll(c, ids, t, res) ==
  IF ids = <<>> THEN [cache |-> c, res |-> res]
  ELSE LET f == fetchStart(c, Head(ids), t)
       IN  fetchAll(f.cache, Tail(ids), t, [res EXCEPT ![Head(ids)] = f.res])

-----------------------------------------------------------------------------
(* The rates endpoints.                                                    *)

AggKinds == {"rates", "summary", "today"}

AggKey(kind) ==
  CASE kind = "rates"   -> "all_rates"
    [] kind = "summary" -> "summary"
    [] kind = "today"   -> "today_rates"

AggSeries(kind) ==
  IF kind = "summary"
  THEN << FRED_SERIES.rate_30yr, FRED_SERIES.rate_15yr, FRED_SERIES.treasury10 >>
  ELSE << FRED_SERIES.rate_30yr, FRED_SERIES.rate_15yr, FRED_SERIES.treasury10,
          FRED_SERIES.fed_funds, FRED_SERIES.prime_rate >>

SeqRange(q) == {q[i] : i \in DOMAIN q}

\* +(r30.value - 0.55).toFixed(2), in hundredths
rArm(value) ==
  ToFixed(FSub(ParseDecimal(value, 1000), ParseDecimal(55, 100)), 100)

\* Difference, rArm and deriveRates on the values a series can take (those
\* of the feeds and the fallback of rate_30yr), worked out once
Memo(values) ==
  [ change |-> [a \in values |-> [b \in values |-> Difference(a, b)]],
    rArm   |-> [v \in values \cup {FALLBACK.rate_30yr.value} |-> rArm(v)],
    d      |-> [v \in values \cup {FALLBACK.rate_30yr.value} |->
                  deriveRates(ParseDecimal(v, 1000))] ]

\* NaN - 0.55 is NaN, and so is every rate derived from NaN
Arm51(r30) == IF r30.value = NaN THEN NaN ELSE memo.rArm[r30.value]
Derived(r30) ==
  IF r30.value = NaN
  THEN [k \in DOMAIN memo.d[FALLBACK.rate_30yr.value] |-> NaN]
  ELSE memo.d[r30.value]

\* the JSON the endpoint builds from the resolved series (res[id].rec);
\* fetched is no field of the JSON: it keeps, for the record, the time each
\* series record was obtained (res[id].fetched: the time of the answer of
\* FRED or of the fallback, and for a cache hit the time the entry was
\* written)
AggBody(kind, res, t) ==
  LET r30 == res[FRED_SERIES.rate_30yr].rec
  IN  [ kind       |-> kind,
        live       |-> HAS_KEY,
        updatedAt  |-> t,
        asOf       |-> r30.date,
        series     |-> [id \in SeqRange(AggSeries(kind)) |->
                          [value  |-> res[id].rec.value,
                           change |-> res[id].rec.change,
                           date   |-> res[id].rec.date]],
        rate_arm51 |-> Arm51(r30),
        d          |-> Derived(r30),
        fetched    |-> [id \in SeqRange(AggSeries(kind)) |-> res[id].fetched] ]

\* typeMap of /api/rates/:type; arm51 is a type only part_000 knows
TypeParams == {"30yr", "15yr", "treasury10", "fedfunds", "prime", "arm51"}
typeMap(type) ==
  CASE type = "30yr"       -> FRED_SERIES.rate_30yr
    [] type = "arm51" /\ server = "part_000" -> "MORTGAGE5US"
    [] type = "15yr"       -> FRED_SERIES.rate_15yr
    [] type = "treasury10" -> FRED_SERIES.treasury10
    [] type = "fedfunds"   -> FRED_SERIES.fed_funds
    [] type = "prime"      -> FRED_SERIES.prime_rate
    [] OTHER               -> "undefined"

NoResp == [how |-> "none", status |-> 0]

\* the handler answering a failed lookup with the fallback record
typeResponseSwallow(seriesId, r) ==
  IF r.st = "error"
  THEN [how |-> "sent", status |-> 200, body |-> FallbackResult(seriesId)]
  ELSE [how |-> "sent", status |-> 200, body |-> r.rec]
\* try { res.json(await fetchFredSeries(seriesId)) } catch { res.status(500) }
typeResponse(seriesId, r) ==
  IF r.st = "error"
  THEN [how |-> "sent", status |-> 500, error |-> r.error]
  ELSE [how |-> "sent", status |-> 200, body |-> r.rec]

\* what a direct caller of fetchFredSeries gets: the record, or the throw
resolveOutcome(r) ==
  IF r.st = "error"
  THEN [how |-> "threw", status |-> 0, error |-> r.error]
  ELSE [how |-> "returned", status |-> 0, body |-> r.rec]

-----------------------------------------------------------------------------
(* GET /api/lender-quotes, the quotes.  Rates, adjustments, lenderVar and  *)
(* apr are in thousandths of a percent, points in hundredths, fees in      *)
(* dollars, monthlyPmt in cents; a badge of null is "none".  Each quote    *)
(* also carries i, its index in selected, and its lenderVar, which the     *)
(* response does not show.                                                 *)

STATE_RATE_ADJ ==
  [ CA |-> -30, NY |-> -40, MA |-> -30, WA |-> -20, CO |-> -20, OR |-> -20,
    TX |->  20, FL |->  10, GA |->  10, AZ |->   0, NC |->   0, VA |-> -10,
    OH |->  20, MI |->  20, PA |->  10, IL |->  10, NJ |-> -10, MD |-> -10 ]

\* STATE_RATE_ADJ[state] ?? 0.01
DEFAULT_STATE_ADJ == 10

\* a lookup whose default is no adjustment
stateAdjOrZero(state) ==
  IF state \in DOMAIN STATE_RATE_ADJ THEN STATE_RATE_ADJ[state] ELSE 0

stateAdj(state) ==
  IF state \in DOMAIN STATE_RATE_ADJ THEN STATE_RATE_ADJ[state]
  ELSE DEFAULT_STATE_ADJ

creditAdj(score) ==
  IF score >= 780 THEN 0
  ELSE IF score >= 760 THEN 50
  ELSE IF score >= 740 THEN 100
  ELSE IF score >= 720 THEN 180
  ELSE IF score >= 700 THEN 250
  ELSE IF score >= 680 THEN 350
  ELSE IF score >= 660 THEN 450
  ELSE IF score >= 640 THEN 600
  ELSE IF score >= 620 THEN 750
  ELSE 1000

\* x <= y
DLe(x, y) == ~DPositive(DSub(x, y))

\* for price > 0
ltvAdj(price, down) ==
  LET upTo(ltv, pct) == DLe(ltv, DNum(pct, 1))
      band(ltv) ==
        IF upTo(ltv, 60) THEN -150
        ELSE IF upTo(ltv, 70) THEN -100
        ELSE IF upTo(ltv, 75) THEN -50
        ELSE IF upTo(ltv, 80) THEN 0
        ELSE IF upTo(ltv, 85) THEN 100
        ELSE IF upTo(ltv, 90) THEN 200
        ELSE IF upTo(ltv, 95) THEN 300
        ELSE 400
  IN  band(DMul(DDiv(DNum(price - down, 1), DNum(price, 1)), DNum(100, 1)))

purposeAdj(purpose) ==
  IF purpose = "refinance" THEN 100
  ELSE IF purpose = "cashout" THEN 300
  ELSE 0

\* loanBaseRates[loanType] || r30.value: an entry of 0 is falsy and gives
\* r30.value, like a loan type the table does not list
loanBaseRate(loanType, r30, r15) ==
  LET off(k)   == 10 * DToFixed(DAdd(DNum(r30, 1000), DNum(k, 100)), 100)
      orR30(v) == IF v = 0 THEN r30 ELSE v
  IN  CASE loanType = "30yr"    -> r30
        [] loanType = "15yr"    -> orR30(r15)
        [] loanType = "arm51"   -> orR30(off(-55))
        [] loanType = "fha30"   -> orR30(off(-25))
        [] loanType = "va30"    -> orR30(off(-50))
        [] loanType = "jumbo30" -> orR30(off(25))
        [] OTHER                -> r30

\* loanTermMap[loanType] || 30
loanTerm(loanType) == IF loanType = "15yr" THEN 15 ELSE 30

\* lender.id.charCodeAt(0)
charCodeAt0(id) ==
  CASE id \in {"rocket"}              -> 114
    [] id \in {"uwm"}                 -> 117
    [] id \in {"loanDepot"}           -> 108
    [] id \in {"newrez"}              -> 110
    [] id \in {"penfed"}              -> 112
    [] id \in {"bof a", "better"}     -> 98
    [] id \in {"chase"}               -> 99
    [] id \in {"wells"}               -> 119
    [] id \in {"guaranteed"}          -> 103
    [] id \in {"ally"}                -> 97
    [] id \in {"flagstar"}            -> 102

\* state.charCodeAt(0) + state.charCodeAt(1)
seed(state) ==
  CASE state = "CA" -> 67 + 65
    [] state = "FL" -> 70 + 76
    [] state = "TX" -> 84 + 88
    [] state = "ZZ" -> 90 + 90

\* Math.sin(x) for x in 132..187, to nine decimals, times 10^9
SinE9 ==
  << 53083587, 868965756, 885924816, 88368686, -790433207, -942514455,
     -228052260, 696080131, 980239659, 363171365, -587795007, -998345361,
     -491021594, 467745162, 996469173, 609044022, -338333394, -974648648,
     -714876430, 202149881, 933320524, 806400581, -61920337, -873311983,
     -881784619, -79548543, 795824097, 939519732, 219425258, -702407786,
     -978450351, -354910176, 594932778, 997797279, 483291564, -475550187,
     -997173289, -601999868, 346649455, 976590868, 708659140, -210810533,
     -936461974, -801134595, 70752236, 877589788, 877575336, 70722167,
     -801152636, -936451400, -210781066, 708680408, 976584383, 346621180,
     -602023938, -997171023 >>

\* Math.sin(x); the ninth decimal is far below what toFixed(3) keeps
sin(x) == DDiv(DNum(SinE9[x - 131], 1), DNum(10^9, 1))

\* the order Array.prototype.sort leaves the indices of an array in, for a
\* comparator (a, b) => key(a) - key(b) and keys the keys of its elements:
\* ascending, equal keys in their original order
Order(keys) ==
  LET n      == Len(keys)
      pos(j) == Cardinality({m \in 1..n :
                   \/ keys[m] < keys[j]
                   \/ keys[m] = keys[j] /\ m < j}) + 1
  IN  SubSeq([p \in 1..n |-> CHOOSE j \in 1..n : pos(j) = p], 1, n)

\* the array s after that sort
SortBy(s, keys) ==
  LET o == Order(keys) IN SubSeq([p \in 1..Len(s) |-> s[o[p]]], 1, Len(s))

\* [...eligible].sort(...).slice(0, 8)
selected(state, creditScore) ==
  LET eligible == Eligible(creditScore)
      keys     == SubSeq([m \in 1..Len(eligible) |->
                            (charCodeAt0(eligible[m].id) + seed(state)) % 7],
                         1, Len(eligible))
      sorted   == SortBy(eligible, keys)
  IN  SubSeq(sorted, 1, IF Len(sorted) < MaxQuotes THEN Len(sorted) ELSE MaxQuotes)

\* parseFloat(((i*0.04 - 0.08) + (Math.sin(seed+i)*0.05)).toFixed(3))
lenderVar(sd, i) ==
  DToFixed(DAdd(DSub(DMul(DNum(i, 1), DNum(4, 100)), DNum(8, 100)),
                DMul(sin(sd + i), DNum(5, 100))), 1000)

\* the badge the map callback gives the quote of index i
indexBadge(i) ==
  CASE i = 0 -> "Lowest Rate"
    [] i = 1 -> "Best Value"
    [] i = 2 -> "Lowest Fees"
    [] OTHER -> "none"

\* parseFloat((baseRate + stateAdj + cAdj + lAdj + purposeAdj
\*             + lenderVar).toFixed(3))
quoteRate(base, adjustments, lv) ==
  DToFixed(DAdd(DAdd(DAdd(DAdd(DAdd(DNum(base, 1000),
                                    DNum(adjustments.state, 1000)),
                               DNum(adjustments.credit, 1000)),
                          DNum(adjustments.ltv, 1000)),
                     DNum(adjustments.purpose, 1000)),
                DNum(lv, 1000)), 1000)

\* parseFloat((0.5 + i*0.08 - lenderVar*2).toFixed(2))
quotePoints(i, lv) ==
  DToFixed(DSub(DAdd(DNum(5, 10), DMul(DNum(i, 1), DNum(8, 100))),
                DMul(DNum(lv, 1000), DNum(2, 1))), 100)

\* Math.round(2800 + i*200 - lenderVar*500)
quoteFees(i, lv) ==
  DRound(DSub(DAdd(DNum(2800, 1), DNum(i * 200, 1)),
              DMul(DNum(lv, 1000), DNum(500, 1))))

\* parseFloat((rate + 0.08 + points*0.06 + fees/loan*0.04).toFixed(3));
\* fees/loan is Infinity for loan = 0 (fees is above zero)
quoteApr(loan, rate, points, fees) ==
  IF loan = 0 THEN Infinity
  ELSE DToFixed(DAdd(DAdd(DAdd(DNum(rate, 1000), DNum(8, 100)),
                          DMul(DNum(points, 100), DNum(6, 100))),
                     DMul(DDiv(DNum(fees, 1), DNum(loan, 1)), DNum(4, 100))),
                1000)

\* the object the callback returns, given its rate, points and fees
quote(lender, i, loan, term, lv, rate, points, fees) ==
  [lender     |-> lender.id,
   rate       |-> rate,
   apr        |-> quoteApr(loan, rate, points, fees),
   points     |-> IF points < 0 THEN 0 ELSE points,
   fees       |-> IF fees < 1500 THEN 1500 ELSE fees,
   monthlyPmt |-> DToFixed(Payment(DNum(loan, 1),
                                   DDiv(DDiv(DNum(rate, 1000), DNum(100, 1)),
                                        DNum(12, 1)),
                                   term * 12), 100),
   badge      |-> indexBadge(i),
   i          |-> i,
   lenderVar  |-> lv]

\* the callback once lenderVar is lv
quoteOfVar(lender, i, loan, term, base, adjustments, lv) ==
  quote(lender, i, loan, term, lv, quoteRate(base, adjustments, lv),
        quotePoints(i, lv), quoteFees(i, lv))

\* the callback of selected.map: the quote of lender, the i-th of selected
quoteOf(lender, i, sd, loan, term, base, adjustments) ==
  quoteOfVar(lender, i, loan, term, base, adjustments, lenderVar(sd, i))

\* the quotes after the sort by rate, with the badges as lines 568-574
\* leave them
badged(quotes) ==
  LET n       == Len(quotes)
      byRate  == SortBy(quotes, SubSeq([k \in 1..n |-> quotes[k].rate], 1, n))
      byApr   == Order(SubSeq([k \in 1..n |-> byRate[k].apr], 1, n))
      byFees  == Order(SubSeq([k \in 1..n |-> byRate[k].fees], 1, n))
      first(k)   == IF k = 1 THEN "Lowest Rate" ELSE byRate[k].badge
      bestVal(k) == IF n >= 2 /\ byApr[2] = k THEN "Best Value" ELSE first(k)
      lowFee(k)  == IF n >= 3 /\ byFees[3] = k /\ bestVal(k) = "none"
                    THEN "Lowest Fees" ELSE bestVal(k)
  IN  [k \in 1..n |-> [byRate[k] EXCEPT !.badge = lowFee(k)]]

\* the adjustments object of the response
adjustmentsOf(state, creditScore, price, down, purpose) ==
  [state   |-> stateAdj(state),
   credit  |-> creditAdj(creditScore),
   ltv     |-> ltvAdj(price, down),
   purpose |-> purposeAdj(purpose)]

\* the response for the lenders selected, the base rate and the adjustments
quotesResponse(lenders, state, loanType, creditScore, price, down, purpose, baseRate, adjustments, t) ==
  IF lenders = <<>>
  \* quotes[0].badge = ... on an empty array throws a TypeError
  THEN [done |-> TRUE, status |-> 500, error |-> "TypeError"]
  ELSE [done |-> TRUE, status |-> 200, state |-> state,
        loanType |-> loanType, creditScore |-> creditScore,
        price |-> price, down |-> down, loan |-> price - down,
        purpose |-> purpose, term |-> loanTerm(loanType),
        baseRate |-> baseRate, adjustments |-> adjustments, updatedAt |-> t,
        quotes |-> badged(SubSeq([k \in 1..Len(lenders) |->
                            quoteOf(lenders[k], k - 1, seed(state),
                                    price - down, loanTerm(loanType),
                                    baseRate, adjustments)],
                         1, Len(lenders)))]

\* the handler after its two fetchFredSeries calls answered r30 and r15, at
\* time t
quoteResponse(state, loanType, creditScore, price, down, purpose, r30, r15, t) ==
  quotesResponse(selected(state, creditScore), state, loanType, creditScore,
                 price, down, purpose, loanBaseRate(loanType, r30, r15),
                 adjustmentsOf(state, creditScore, price, down, purpose), t)

-----------------------------------------------------------------------------
(* GET /api/today-rates: the rate column of the rows that deriveRates also *)
(* lists, under the names deriveRates gives them.  b is r30.value, a       *)
(* double; the rates are in hundredths.                                    *)

\* the rows with the Cash-Out Refi row given the offset of the row
\* 30-Year Fixed Refi
todayRatesRefiOffset(b) ==
  [ rate_20yr    |-> ToFixed(FSub(b, ParseDecimal(25, 100)), 100),
    rate_fha30   |-> ToFixed(FSub(b, ParseDecimal(25, 100)), 100),
    rate_va30    |-> ToFixed(FSub(b, ParseDecimal(50, 100)), 100),
    rate_usda30  |-> ToFixed(FSub(b, ParseDecimal(30, 100)), 100),
    rate_jumbo30 |-> ToFixed(FAdd(b, ParseDecimal(25, 100)), 100),
    rate_arm71   |-> ToFixed(FSub(b, ParseDecimal(40, 100)), 100),
    rate_cashout |-> ToFixed(FAdd(b, ParseDecimal(10, 100)), 100) ]

\* rows 20-Year Fixed, 30-Year FHA, 30-Year VA, 30-Year USDA, 30-Year
\* Jumbo, 7/1 ARM and Cash-Out Refi
todayRates(b) ==
  [ rate_20yr    |-> ToFixed(FSub(b, ParseDecimal(25, 100)), 100),
    rate_fha30   |-> ToFixed(FSub(b, ParseDecimal(25, 100)), 100),
    rate_va30    |-> ToFixed(FSub(b, ParseDecimal(50, 100)), 100),
    rate_usda30  |-> ToFixed(FSub(b, ParseDecimal(30, 100)), 100),
    rate_jumbo30 |-> ToFixed(FAdd(b, ParseDecimal(25, 100)), 100),
    rate_arm71   |-> ToFixed(FSub(b, ParseDecimal(40, 100)), 100),
    rate_cashout |-> ToFixed(FAdd(b, ParseDecimal(30, 100)), 100) ]

\* the entries of loanBaseRates that deriveRates also lists, in thousandths,
\* for r30.value = r30 and r15.value = r15
quoteBaseRates(r30, r15) ==
  [ rate_fha30   |-> loanBaseRate("fha30", r30, r15),
    rate_va30    |-> loanBaseRate("va30", r30, r15),
    rate_jumbo30 |-> loanBaseRate("jumbo30", r30, r15) ]

-----------------------------------------------------------------------------
(* GET /api/rate-history.  Values are in thousandths of a percent; the     *)
(* date of a synthetic point is the number of months it lies before the    *)
(* request.                                                                *)

\* a property JSON.stringify leaves out (undefined)
Undefined == Null - 1

\* seriesMap[series] || FRED_SERIES.rate_30yr
historySeriesId(series) ==
  IF series = "15yr" THEN FRED_SERIES.rate_15yr ELSE FRED_SERIES.rate_30yr

\* limitMap[period] || 55
historyLimit(period) ==
  CASE period = "1yr"  -> 55
    [] period = "3yr"  -> 160
    [] period = "5yr"  -> 265
    [] period = "10yr" -> 530
    [] OTHER           -> 55

\* { "1yr":12, "3yr":36, "5yr":60, "10yr":120 }[period] || 12
pointCount(period) ==
  CASE period = "1yr"  -> 12
    [] period = "3yr"  -> 36
    [] period = "5yr"  -> 60
    [] period = "10yr" -> 120
    [] OTHER           -> 12

\* Math.sin(i*0.4) for i in 0..120, to nine decimals, times 10^9
SinTenthsE9 ==
  << 0, 389418342, 717356091, 932039086, 999573603, 909297427, 675463181,
     334988150, -58374143, -442520443, -756802495, -951602074, -996164609,
     -883454656, -631266638, -279415498, 116549205, 494113351, 793667864,
     967919672, 989358247, 854598908, 584917193, 222889914, -174326781,
     -544021111, -827826469, -980936230, -979177729, -822828595,
     -536572918, -165604175, 231509825, 592073515, 859161815, 990607356,
     965657777, 788252067, 486398689, 107753652, -287903317, -638106682,
     -887567034, -996900066, -948844498, -750987247, -434565622, -49535641,
     343314929, 681963620, 912945251, 999792900, 928795234, 711161223,
     381250492, -8851309, -397555683, -723494756, -935209915, -999275992,
     -905578362, -668909820, -326635126, 67208073, 450440594, 762558450,
     954285094, 995351105, 879273062, 624377135, 270905788, -125335626,
     -501789301, -799021479, -970105734, -988031624, -849969046,
     -577715044, -214252540, 183035729, 551426681, 832759485, 982617877,
     977342512, 817766255, 529082686, 156868595, -240111598, -599183449,
     -863657409, -991778853, -963320224, -782774514, -478645919, -98949658,
     296368579, 644896733, 891609873, 997557419, 946012583, 745113160,
     426576754, 40693257, -351614810, -688410630, -916521548, -999933866,
     -925478614, -704910637, -373052771, 17701925, 405661877, 729576737,
     938307473, 998900091, 901788348, 662304053, 318256511, -76036736,
     -458325454, -768254661 >>

\* Math.sin(i*0.4); the ninth decimal is far below what toFixed(2) keeps
sinOfIndex(i) == DDiv(DNum(SinTenthsE9[i + 1], 1), DNum(10^9, 1))

\* +(fb + Math.sin(i*0.4)*0.8 + (i > 20 ? 1.2 : 0)).toFixed(2)
syntheticValue(fb, i) ==
  10 * DToFixed(DAdd(DAdd(DNum(fb, 1000), DMul(sinOfIndex(i), DNum(8, 10))),
                     IF i > 20 THEN DNum(12, 10) ELSE DZero), 100)

\* the loop for (let i = pointCount; i >= 0; i--)
syntheticPoints(fb, n) ==
  SubSeq([k \in 1..(n + 1) |->
            [date |-> n + 1 - k, value |-> syntheticValue(fb, n + 1 - k)]],
         1, n + 1)

RECURSIVE MinFrom(_, _, _)
\* Math.min(m, values[k], values[k+1], ...)
MinFrom(m, values, k) ==
  IF k > Len(values) THEN m
  ELSE MinFrom(IF values[k] < m THEN values[k] ELSE m, values, k + 1)

RECURSIVE MaxFrom(_, _, _)
\* Math.max(m, values[k], values[k+1], ...)
MaxFrom(m, values, k) ==
  IF k > Len(values) THEN m
  ELSE MaxFrom(IF values[k] > m THEN values[k] ELSE m, values, k + 1)

\* Math.min(...values), Math.max(...values): Infinity and -Infinity for no
\* values
MathMin(values) == MinFrom(Infinity, values, 1)
MathMax(values) == MaxFrom(-Infinity, values, 1)

\* values[i], undefined outside the array (points[i]?.value likewise)
ValueAt(values, i) ==
  IF i \in 1..Len(values) THEN values[i] ELSE Undefined

\* the values of the points
PointValues(points) ==
  SubSeq([k \in 1..Len(points) |-> points[k].value], 1, Len(points))

\* the response of the branch if (!HAS_KEY), for its points
syntheticResponse(series, period, points) ==
  [done |-> TRUE, status |-> 200, series |-> series, period |-> period,
   live |-> FALSE, data |-> points,
   min     |-> MathMin(PointValues(points)),
   max     |-> MathMax(PointValues(points)),
   current |-> ValueAt(PointValues(points), Len(points)),
   start   |-> ValueAt(PointValues(points), 1)]

\* the branch if (!HAS_KEY)
syntheticHistory(series, period) ==
  syntheticResponse(series, period,
                    syntheticPoints(FALLBACK.rate_30yr.value, pointCount(period)))

\* what FRED can answer the history request: a failure, or observations
\* oldest first (sort_order asc), no more of them than the limit asked for
HistoryFeeds ==
  { << >>,
    << [date |-> "2026-02-26", value |-> "."] >>,
    << [date |-> "2026-02-26", value |-> "6.50"] >>,
    << [date |-> "2026-02-19", value |-> "6.50"],
       [date |-> "2026-02-26", value |-> "."],
       [date |-> "2026-03-05", value |-> "6.76"] >>,
    << [date |-> "2026-02-26", value |-> "6.76"],
       [date |-> "2026-03-05", value |-> "6.50"] >> }

HistoryAnswers ==
  {[ok |-> FALSE]} \cup {[ok |-> TRUE, observations |-> f] : f \in HistoryFeeds}

\* obs: data.observations.filter(o => o.value !== ".").map(...), and
\* points: the 5/1 ARM spread taken off when series is "arm"
livePoints(series, observations) ==
  LET obs == Usable(observations)
  IN  SubSeq([k \in 1..Len(obs) |->
                [date  |-> obs[k].date,
                 value |-> IF series = "arm" THEN 10 * rArm(Milli(obs[k].value))
                           ELSE Milli(obs[k].value)]],
             1, Len(obs))

\* +((values[values.length-1] - values[0]).toFixed(3)): NaN for no values
historyChange(values) ==
  IF values = <<>> THEN NaN ELSE Difference(values[Len(values)], values[1])

\* the response of the live branch, for its points
liveResponse(series, period, points) ==
  [done |-> TRUE, status |-> 200, series |-> series, period |-> period,
   live |-> TRUE, data |-> points,
   min     |-> MathMin(PointValues(points)),
   max     |-> MathMax(PointValues(points)),
   current |-> ValueAt(PointValues(points), Len(points)),
   start   |-> ValueAt(PointValues(points), 1),
   change  |-> historyChange(PointValues(points))]

\* the handler after its await: the catch answers a failed request with
\* status 500
liveHistory(series, period, answer) ==
  IF ~answer.ok
  THEN [done |-> TRUE, status |-> 500, error |-> "upstream request failed"]
  ELSE liveResponse(series, period, livePoints(series, answer.observations))

-----------------------------------------------------------------------------
(* The e-mail rate alerts.  data/alerts.json is read whole by loadAlerts   *)
(* and written whole by saveAlerts; an alert is the record the subscribe   *)
(* handler builds, without the fields no handler reads back (name, state,  *)
(* createdAt, updatedAt, triggeredAt).  An e-mail address is a sequence of *)
(* characters, a rate a number of thousandths of a percent.                *)

SALT == <<"r", "a", "t", "e", "c", "r", "o", "f", "t", "2", "0", "2", "6">>

\* the bytes of the input 24 characters of base64 stand for
TokenBytes == 18

\* Buffer.from(email + "ratecroft2026").toString("base64") cut to 24
\* characters, written as the bytes those characters encode
makeToken(email) ==
  LET salted == email \o SALT
  IN  SubSeq(salted, 1, IF Len(salted) < TokenBytes THEN Len(salted) ELSE TokenBytes)

\* email.includes("@")
HasAt(email) == \E i \in DOMAIN email : email[i] = "@"

\* loadAlerts(): the parsed file
loadAlerts(file) == file

\* saveAlerts(alerts): the file after the write
saveAlerts(alerts) == alerts

\* alerts.filter(keep), for keep given as the set of indices kept
RECURSIVE FilterAlerts(_, _, _)
FilterAlerts(alerts, kept, i) ==
  IF i > Len(alerts) THEN <<>>
  ELSE (IF i \in kept THEN <<alerts[i]>> ELSE <<>>) \o FilterAlerts(alerts, kept, i + 1)

\* the alert the subscribe handler pushes; id is Date.now(), here the number
\* of the request
newAlert(id, email, targetRate, loanType) ==
  [id |-> id, email |-> email, targetRate |-> targetRate, loanType |-> loanType,
   token |-> makeToken(email), triggered |-> FALSE, triggeredRate |-> Null]

\* the body of the subscribe handler up to its first return or await:
\* the response, the file, and whether the confirmation is to be mailed
subscribe(file, id, email, targetRate, loanType, smtp) ==
  LET alerts == loadAlerts(file)
      found  == {i \in DOMAIN alerts : alerts[i].email = email /\ alerts[i].loanType = loanType}
      exists == CHOOSE i \in found : \A j \in found : i <= j
  IN  IF ~HasAt(email)
      THEN [file |-> file, await |-> FALSE,
            resp |-> [status |-> 400, error |-> "Valid email required"]]
      ELSE IF targetRate = 0
      THEN [file |-> file, await |-> FALSE,
            resp |-> [status |-> 400, error |-> "Target rate required (e.g. 6.5)"]]
      ELSE IF found # {}
      THEN [file |-> saveAlerts([alerts EXCEPT ![exists].targetRate = targetRate]),
            await |-> FALSE,
            resp |-> [status |-> 200, message |-> "Alert updated"]]
      ELSE [file |-> saveAlerts(Append(alerts, newAlert(id, email, targetRate, loanType))),
            await |-> smtp,
            resp |-> [status |-> 200, message |-> "Alert created"]]

\* DELETE /api/alerts/unsubscribe?email=&token=
unsubscribe(file, email, token) ==
  LET alerts  == loadAlerts(file)
      updated == FilterAlerts(alerts, {i \in DOMAIN alerts : ~(alerts[i].email = email /\ alerts[i].token = token)}, 1)
  IN  [file |-> saveAlerts(updated),
       resp |-> [status |-> 200, removed |-> Len(alerts) - Len(updated)]]

\* GET /api/alerts/verify?token=&action=
verify(file, token, action) ==
  LET alerts  == loadAlerts(file)
      updated == FilterAlerts(alerts, {i \in DOMAIN alerts : alerts[i].token # token}, 1)
  IN  IF action = "unsubscribe"
      THEN [file |-> saveAlerts(updated),
            resp |-> [status |-> 200, removed |-> Len(alerts) - Len(updated)]]
      ELSE [file |-> file, resp |-> [status |-> 400, error |-> "Unknown action"]]

\* currentRates of the trigger handler
currentRates(r30, r15, arm) ==
  [r30 |-> r30, r15 |-> r15, arm51 |-> arm]

\* currentRates[alert.loanType] || r30.value
currentRate(rates, loanType) ==
  LET v == CASE loanType = "30yr"  -> rates.r30
             [] loanType = "15yr"  -> rates.r15
             [] loanType = "arm51" -> rates.arm51
             [] OTHER              -> Undefined
  IN  IF v \in {Undefined, 0, NaN} THEN rates.r30 ELSE v

\* the loop of the trigger handler from alert i on, up to its next await
\* (at is then the alert whose mail is being sent) or to its end (at is
\* then past the list); n counts triggered
RECURSIVE triggerLoop(_, _, _, _, _)
triggerLoop(alerts, i, n, rates, smtp) ==
  IF i > Len(alerts)
  THEN [alerts |-> alerts, at |-> i, triggered |-> n]
  ELSE LET current == currentRate(rates, alerts[i].loanType)
           marked  == [alerts EXCEPT ![i].triggered = TRUE, ![i].triggeredRate = current]
       IN  IF current <= alerts[i].targetRate /\ ~alerts[i].triggered
           THEN IF smtp
                THEN [alerts |-> marked, at |-> i, triggered |-> n + 1]
                ELSE triggerLoop(marked, i + 1, n + 1, rates, smtp)
           ELSE triggerLoop(alerts, i + 1, n, rates, smtp)

\* the mail of the trigger handler about alert
triggerMail(alert, r) ==
  [kind |-> "trigger", to |-> alert.email, id |-> alert.id, request |-> r,
   current |-> alert.triggeredRate, target |-> alert.targetRate]

\* the mail of the subscribe handler
confirmMail(email, r) == [kind |-> "confirm", to |-> email, request |-> r]

\* res.json of the trigger handler
triggerResponse(run, emailsSent) ==
  [status |-> 200, totalAlerts |-> Len(run.alerts), triggered |-> run.triggered,
   emailsSent |-> emailsSent]
-----------------------------------------------------------------------------
(* Requests, numbered in order of arrival.  Each is an HTTP request to a   *)
(* rates endpoint ("rates", "summary", "today", "type") or a direct caller *)
(* awaiting fetchFredSeries(arg) ("resolve").  res is the table of its     *)
(* fetchFredSeries calls, resp what it answered.                           *)

MaxRequests == 2
MaxUpstream == 3
MaxTicks    == 2
TickStep    == STD_TTL

Slots == 1..MaxRequests

NoCalls == [id \in AllIds |-> NoCall]

IdleReq == [pc |-> "idle", kind |-> "none", arg |-> "none",
            res |-> NoCalls, resp |-> NoResp]

\* request r is the next to arrive
CanStart(r) == r = nRequests + 1

Sent(res) == Cardinality({id \in AllIds : res[id].st = "pending"})

ResolverIdle ==
  /\ HAS_KEY = FALSE
  /\ server = "server.js"
  /\ now = 0
  /\ cache = [k \in CacheKeys |-> NoEntry]
  /\ req = [r \in Slots |-> IdleReq]
  /\ nRequests = 0
  /\ nUpstream = 0
  /\ memo = [change |-> <<>>, rArm |-> <<>>, d |-> <<>>]
  /\ NoAlerts

PureIdle ==
  /\ call = [fn |-> "none"]
  /\ ret = NoRet

Init ==
  /\ HAS_KEY \in BOOLEAN
  /\ server \in Servers
  /\ now = 0
  /\ cache = [k \in CacheKeys |-> NoEntry]
  /\ req = [r \in Slots |-> IdleReq]
  /\ nRequests = 0
  /\ nUpstream = 0
  /\ memo = Memo(FeedValues)
  /\ PureIdle
  /\ NoAlerts

\* time passes
Tick ==
  /\ now + TickStep <= MaxTicks * TickStep
  /\ now' = now + TickStep
  /\ UNCHANGED <<HAS_KEY, server, memo, cache, req, nRequests, nUpstream, call, ret,
              HAS_SMTP, ALERTS_FILE, outbox>>

\* some code awaits fetchFredSeries(id)
StartResolve(r, id) ==
  /\ CanStart(r)
  /\ LET f == fetchStart(cache, id, now)
     IN  /\ nUpstream + f.res.sent <= MaxUpstream
         /\ cache' = f.cache
         /\ nUpstream' = nUpstream + f.res.sent
         /\ req' = [req EXCEPT ![r] =
               [pc   |-> IF f.res.st = "pending" THEN "waiting" ELSE "done",
                kind |-> "resolve", arg |-> id,
                res  |-> [NoCalls EXCEPT ![id] = f.res],
                resp |-> IF f.res.st = "pending" THEN NoResp
                         ELSE resolveOutcome(f.res)]]
  /\ nRequests' = nRequests + 1
  /\ UNCHANGED <<HAS_KEY, server, memo, now, call, ret,
              HAS_SMTP, ALERTS_FILE, outbox>>

\* GET /api/rates/:type
StartType(r, type) ==
  /\ CanStart(r)
  /\ LET seriesId == typeMap(type)
     IN  IF seriesId = "undefined"
         THEN /\ req' = [req EXCEPT ![r] =
                    [pc |-> "done", kind |-> "type", arg |-> type,
                     res |-> NoCalls,
                     resp |-> [how |-> "sent", status |-> 400,
                               error |-> "Unknown type"]]]
              /\ UNCHANGED <<cache, nUpstream>>
         ELSE LET f == fetchStart(cache, seriesId, now)
              IN  /\ nUpstream + f.res.sent <= MaxUpstream
                  /\ cache' = f.cache
                  /\ nUpstream' = nUpstream + f.res.sent
                  /\ req' = [req EXCEPT ![r] =
                        [pc   |-> IF f.res.st = "pending" THEN "waiting" ELSE "done",
                         kind |-> "type", arg |-> type,
                         res  |-> [NoCalls EXCEPT ![seriesId] = f.res],
                         resp |-> IF f.res.st = "pending" THEN NoResp
                                  ELSE typeResponse(seriesId, f.res)]]
  /\ nRequests' = nRequests + 1
  /\ UNCHANGED <<HAS_KEY, server, memo, now, call, ret,
              HAS_SMTP, ALERTS_FILE, outbox>>

\* GET /api/rates, /api/rates/summary, /api/today-rates of server.js
StartAggregate(r, kind) ==
  /\ CanStart(r)
  /\ server = "server.js"
  /\ IF Cached(cache, AggKey(kind), now)
     THEN /\ req' = [req EXCEPT ![r] =
                [pc |-> "done", kind |-> kind, arg |-> "none", res |-> NoCalls,
                 resp |-> [how |-> "sent", status |-> 200,
                           body |-> cache[AggKey(kind)].v]]]
          /\ UNCHANGED <<cache, nUpstream>>
     ELSE LET f == fetchAll(cache, AggSeries(kind), now, NoCalls)
          IN  /\ nUpstream + Sent(f.res) <= MaxUpstream
              /\ nUpstream' = nUpstream + Sent(f.res)
              /\ IF Sent(f.res) > 0
                 THEN /\ cache' = f.cache
                      /\ req' = [req EXCEPT ![r] =
                            [pc |-> "waiting", kind |-> kind, arg |-> "none",
                             res |-> f.res, resp |-> NoResp]]
                 ELSE LET response == AggBody(kind, f.res, now)
                      IN  /\ cache' = CacheSet(f.cache, AggKey(kind), response, AGG_TTL, now)
                          /\ req' = [req EXCEPT ![r] =
                                [pc |-> "done", kind |-> kind, arg |-> "none",
                                 res |-> f.res,
                                 resp |-> [how |-> "sent", status |-> 200,
                                           body |-> response]]]
  /\ nRequests' = nRequests + 1
  /\ UNCHANGED <<HAS_KEY, server, memo, now, call, ret,
              HAS_SMTP, ALERTS_FILE, outbox>>

\* FRED answers the axios request of call id of request r (or it times out)
UpstreamRespond(r, id, answer) ==
  /\ req[r].res[id].st = "pending"
  /\ LET f   == fetchDone(cache, id, now, answer)
         res == [req[r].res EXCEPT ![id] = f.res]
         q   == req[r]
     IN  CASE q.kind = "resolve" ->
                /\ cache' = f.cache
                /\ req' = [req EXCEPT ![r] =
                      [q EXCEPT !.pc = "done", !.res = res,
                                !.resp = resolveOutcome(f.res)]]
           [] q.kind = "type" ->
                /\ cache' = f.cache
                /\ req' = [req EXCEPT ![r] =
                      [q EXCEPT !.pc = "done", !.res = res,
                                !.resp = typeResponse(id, f.res)]]
           [] OTHER ->
                IF q.pc = "done"
                \* Promise.all already rejected: the call still finishes
                THEN /\ cache' = f.cache
                     /\ req' = [req EXCEPT ![r] = [q EXCEPT !.res = res]]
                ELSE IF f.res.st = "error"
                THEN /\ cache' = f.cache
                     /\ req' = [req EXCEPT ![r] =
                           [q EXCEPT !.pc = "done", !.res = res,
                                     !.resp = [how |-> "sent", status |-> 500,
                                               error |-> f.res.error]]]
                ELSE IF \E s \in AllIds : res[s].st = "pending"
                THEN /\ cache' = f.cache
                     /\ req' = [req EXCEPT ![r] = [q EXCEPT !.res = res]]
                ELSE LET response == AggBody(q.kind, res, now)
                     IN  /\ cache' = CacheSet(f.cache, AggKey(q.kind), response, AGG_TTL, now)
                         /\ req' = [req EXCEPT ![r] =
                               [q EXCEPT !.pc = "done", !.res = res,
                                         !.resp = [how |-> "sent", status |-> 200,
                                                   body |-> response]]]
  /\ UNCHANGED <<HAS_KEY, server, memo, now, nRequests, nUpstream, call, ret,
              HAS_SMTP, ALERTS_FILE, outbox>>

Next ==
  \/ Tick
  \/ \E r \in Slots, id \in AllIds : StartResolve(r, id)
  \/ \E r \in Slots, type \in TypeParams : StartType(r, type)
  \/ \E r \in Slots, kind \in AggKinds : StartAggregate(r, kind)
  \/ \E r \in Slots, id \in AllIds, answer \in UpstreamAnswers :
        UpstreamRespond(r, id, answer)

Spec == Init /\ [][Next]_vars
-----------------------------------------------------------------------------
(* deriveRates on bounded arguments.                                       *)

\* benchmark rates tried, in thousandths of a percent
MinBase30 == 3700
MaxBase30 == 4300

InitDerive ==
  /\ ResolverIdle
  /\ call \in [fn : {"deriveRates"}, base30 : MinBase30..MaxBase30]
  /\ ret = NoRet

Derive ==
  /\ call.fn = "deriveRates"
  /\ ~ret.done
  /\ ret' = [done |-> TRUE, d |-> deriveRates(ParseDecimal(call.base30, 1000))]
  /\ UNCHANGED <<call, HAS_KEY, server, memo, now, cache, req, nRequests, nUpstream,
              HAS_SMTP, ALERTS_FILE, outbox>>

NextDerive == Derive

SpecDerive == InitDerive /\ [][NextDerive]_vars

-----------------------------------------------------------------------------
(* The loan entry points on bounded arguments.                             *)

MaxSmall      == 12
MaxPriceSteps == 5
MaxDownSteps  == 6
PriceStep     == 100 * 1000
DownStep      == 20 * 1000

Prices == (1..MaxSmall) \cup {k * PriceStep : k \in 1..MaxPriceSteps}
Downs  == (0..MaxSmall) \cup {k * DownStep : k \in 1..MaxDownSteps}
CreditScores == {500, 600, 760}

InitLoan ==
  /\ ResolverIdle
  /\ call \in [fn : {"calculate"}, price : Prices, down : Downs]
        \cup [fn : {"lenderQuotes"}, price : Prices, down : Downs,
              creditScore : CreditScores, fetch : {"ok", "throws"}]
  /\ ret = NoRet

Calculate ==
  /\ call.fn = "calculate"
  /\ ~ret.done
  /\ ret' = calculate(call.price, call.down)
  /\ UNCHANGED <<call, HAS_KEY, server, memo, now, cache, req, nRequests, nUpstream,
              HAS_SMTP, ALERTS_FILE, outbox>>

LenderQuotes ==
  /\ call.fn = "lenderQuotes"
  /\ ~ret.done
  /\ ret' = lenderQuotes(call.price, call.down, call.creditScore, call.fetch)
  /\ UNCHANGED <<call, HAS_KEY, server, memo, now, cache, req, nRequests, nUpstream,
              HAS_SMTP, ALERTS_FILE, outbox>>

NextLoan == Calculate \/ LenderQuotes

SpecLoan == InitLoan /\ [][NextLoan]_vars


-----------------------------------------------------------------------------
(* The amortization of accepted /api/calculate requests on bounded         *)
(* arguments.                                                              *)

MaxTerm == 3
Principals == {1, 1000, 99999, 100000, 320000, 400000, 500000}
Rates == {0, 1, 300, 675, 1200}

InitAmort ==
  /\ ResolverIdle
  /\ call \in [fn : {"amortization"}, principal : Principals, rate : Rates,
               term : 0..MaxTerm]
  /\ ret = NoRet

Amortize ==
  /\ call.fn = "amortization"
  /\ ~ret.done
  /\ ret' = amortization(call.principal, call.rate, call.term)
  /\ UNCHANGED <<call, HAS_KEY, server, memo, now, cache, req, nRequests, nUpstream,
              HAS_SMTP, ALERTS_FILE, outbox>>

NextAmort == Amortize

SpecAmort == InitAmort /\ [][NextAmort]_vars
-----------------------------------------------------------------------------
(* /api/affordability and /api/refinance on bounded arguments.             *)

\* the ceilings a caller gives
DtiLimits == {28, 36, 43}

AffordabilityCalls ==
  [fn : {"affordability"}, annual_income : {60000, 100000},
   monthly_debts : {0, 500, 5000}, down_payment : {0, 60000},
   rate : {0, 675}, term : {15, 30}, dti_limit : DtiLimits]

RefinanceCalls ==
  [fn : {"refinance"}, current_balance : {100000, 320000},
   current_rate : {0, 675, 750}, new_rate : {0, 675, 750},
   remaining_term : {15, 25, 30}, new_term : {15, 30},
   closing_costs : {0, 1, 6000, 500000}]

InitAdvice ==
  /\ ResolverIdle
  /\ call \in AffordabilityCalls \cup RefinanceCalls
  /\ ret = NoRet

Affordability ==
  /\ call.fn = "affordability"
  /\ ~ret.done
  /\ ret' = affordability(call.annual_income, call.monthly_debts,
                          call.down_payment, call.rate, call.term,
                          call.dti_limit)
  /\ UNCHANGED <<call, HAS_KEY, server, memo, now, cache, req, nRequests, nUpstream,
              HAS_SMTP, ALERTS_FILE, outbox>>

Refinance ==
  /\ call.fn = "refinance"
  /\ ~ret.done
  /\ ret' = refinance(call.current_balance, call.current_rate, call.new_rate,
                      call.remaining_term, call.new_term, call.closing_costs)
  /\ UNCHANGED <<call, HAS_KEY, server, memo, now, cache, req, nRequests, nUpstream,
              HAS_SMTP, ALERTS_FILE, outbox>>

NextAdvice == Affordability \/ Refinance

SpecAdvice == InitAdvice /\ [][NextAdvice]_vars

-----------------------------------------------------------------------------
(* /api/lender-quotes on bounded arguments, on a server without an API     *)
(* key: requests come one after the other, and time passes between them.   *)

\* the states asked about: two of the table with opposite signs, one whose
\* badges collide, one the table does not list
QuoteStates == {"CA", "FL", "TX", "ZZ"}

\* requests that vary the loan type and the purpose, and requests that vary
\* the credit score and the loan
QuoteCalls ==
  [fn : {"quote"}, state : QuoteStates,
   loanType : {"30yr", "15yr", "jumbo30"}, creditScore : {760},
   price : {500000}, down : {100000},
   purpose : {"purchase", "refinance", "cashout"}]
  \cup
  [fn : {"quote"}, state : QuoteStates, loanType : {"30yr"},
   creditScore : {500, 600, 760}, price : {100000, 500000},
   down : {25000, 100000, 100500}, purpose : {"purchase"}]

InitQuotes ==
  /\ ResolverIdle
  /\ call \in QuoteCalls
  /\ ret = NoRet

\* the handler runs on call, whether or not it has answered it before
Quote ==
  /\ call.fn = "quote"
  /\ LET f30 == fetchStart(cache, FRED_SERIES.rate_30yr, now)
         f15 == fetchStart(f30.cache, FRED_SERIES.rate_15yr, now)
     IN  /\ cache' = f15.cache
         /\ ret' = quoteResponse(call.state, call.loanType, call.creditScore,
                                 call.price, call.down, call.purpose,
                                 f30.res.rec.value, f15.res.rec.value, now)
  /\ UNCHANGED <<call, HAS_KEY, server, memo, now, req, nRequests, nUpstream,
              HAS_SMTP, ALERTS_FILE, outbox>>

NextQuotes == Quote \/ Tick

SpecQuotes == InitQuotes /\ [][NextQuotes]_vars

-----------------------------------------------------------------------------
(* The three consumers of the benchmark rate on the same bounded rate:     *)
(* deriveRates, the rows of /api/today-rates and the base rates of         *)
(* /api/lender-quotes, each run once, in any order.                        *)

NotRun == <<>>

InitAgree ==
  /\ ResolverIdle
  /\ call \in [fn : {"benchmark"}, base30 : MinBase30..MaxBase30]
  /\ ret = [done |-> FALSE, derived |-> NotRun, today |-> NotRun,
            quote |-> NotRun]

\* done once the three have run
Ran(r) ==
  [r EXCEPT !.done = r.derived # NotRun /\ r.today # NotRun /\ r.quote # NotRun]

AgreeDerive ==
  /\ call.fn = "benchmark"
  /\ ret.derived = NotRun
  /\ ret' = Ran([ret EXCEPT !.derived = deriveRates(ParseDecimal(call.base30, 1000))])
  /\ UNCHANGED <<call, HAS_KEY, server, memo, now, cache, req, nRequests, nUpstream,
              HAS_SMTP, ALERTS_FILE, outbox>>

AgreeToday ==
  /\ call.fn = "benchmark"
  /\ ret.today = NotRun
  /\ ret' = Ran([ret EXCEPT !.today = todayRates(ParseDecimal(call.base30, 1000))])
  /\ UNCHANGED <<call, HAS_KEY, server, memo, now, cache, req, nRequests, nUpstream,
              HAS_SMTP, ALERTS_FILE, outbox>>

AgreeQuote ==
  /\ call.fn = "benchmark"
  /\ ret.quote = NotRun
  /\ ret' = Ran([ret EXCEPT !.quote =
                   quoteBaseRates(call.base30, FALLBACK.rate_15yr.value)])
  /\ UNCHANGED <<call, HAS_KEY, server, memo, now, cache, req, nRequests, nUpstream,
              HAS_SMTP, ALERTS_FILE, outbox>>

NextAgree == AgreeDerive \/ AgreeToday \/ AgreeQuote

SpecAgree == InitAgree /\ [][NextAgree]_vars
-----------------------------------------------------------------------------
(* /api/rate-history on one request, with or without an API key: the       *)
(* handler runs up to its await, and FRED answers or fails.  The axios     *)
(* request of the handler is kept in req[1].res under the series id.       *)

\* "2yr" and "jumbo" are a period and a series the handler's tables do not
\* list
HistoryPeriods == {"1yr", "3yr", "5yr", "10yr", "2yr"}
HistorySeries  == {"30yr", "15yr", "arm", "jumbo"}

InitHistory ==
  /\ HAS_KEY \in BOOLEAN
  /\ server = "server.js"
  /\ now = 0
  /\ cache = [k \in CacheKeys |-> NoEntry]
  /\ req = [r \in Slots |-> IdleReq]
  /\ nRequests = 0
  /\ nUpstream = 0
  /\ memo = [change |-> <<>>, rArm |-> <<>>, d |-> <<>>]
  /\ call \in [fn : {"history"}, period : HistoryPeriods, series : HistorySeries]
  /\ ret = NoRet
  /\ NoAlerts

\* the handler up to its return in the branch if (!HAS_KEY), or up to its
\* await
HistoryRequest ==
  /\ call.fn = "history"
  /\ nRequests = 0
  /\ nRequests' = 1
  /\ IF ~HAS_KEY
     THEN /\ ret' = syntheticHistory(call.series, call.period)
          /\ req' = [req EXCEPT ![1] =
                [IdleReq EXCEPT !.pc = "done", !.kind = "history"]]
          /\ UNCHANGED nUpstream
     ELSE /\ nUpstream' = nUpstream + 1
          /\ req' = [req EXCEPT ![1] =
                [pc |-> "waiting", kind |-> "history", arg |-> call.period,
                 res |-> [NoCalls EXCEPT ![historySeriesId(call.series)] =
                            [st |-> "pending", sent |-> 1]],
                 resp |-> NoResp]]
          /\ UNCHANGED ret
  /\ UNCHANGED <<call, HAS_KEY, server, memo, now, cache,
              HAS_SMTP, ALERTS_FILE, outbox>>

\* FRED answers the request (or it fails), and the handler finishes
HistoryRespond(answer) ==
  /\ req[1].kind = "history"
  /\ req[1].pc = "waiting"
  /\ ret' = liveHistory(call.series, call.period, answer)
  /\ req' = [req EXCEPT ![1].pc = "done",
                        ![1].res[historySeriesId(call.series)] =
                           [st |-> IF answer.ok THEN "live" ELSE "error",
                            sent |-> 1, answer |-> answer]]
  /\ UNCHANGED <<call, HAS_KEY, server, memo, now, cache, nRequests, nUpstream,
              HAS_SMTP, ALERTS_FILE, outbox>>

NextHistory ==
  \/ HistoryRequest
  \/ \E answer \in HistoryAnswers : HistoryRespond(answer)

SpecHistory == InitHistory /\ [][NextHistory]_vars
-----------------------------------------------------------------------------
(* The alert endpoints on a server without an API key, with or without a   *)
(* mail transport.  A request runs from its arrival to its response or to  *)
(* its next await of mailer.sendMail; the mail is accepted or refused      *)
(* later, and other requests run in between.  The awaits of                *)
(* fetchFredSeries resolve without I/O here and let no request in.         *)

MaxAlertRequests == 3

AlertSlots == 1..MaxAlertRequests

AlertEmails  == {<<"a", "@", "x">>, <<"b", "@", "x">>}
AlertTargets == {6500, 7000}

\* the bodies posted to /api/alerts/subscribe: the well-formed ones, one
\* with no "@", one with no target, one for a loan type currentRates lacks
SubscribeBodies ==
  [email : AlertEmails, targetRate : AlertTargets, loanType : {"30yr", "15yr"}]
  \cup {[email |-> <<"a">>, targetRate |-> 6500, loanType |-> "30yr"],
        [email |-> <<"a", "@", "x">>, targetRate |-> 0, loanType |-> "30yr"],
        [email |-> <<"a", "@", "x">>, targetRate |-> 7000, loanType |-> "fha30"]}

IdleAlertReq == [pc |-> "idle", kind |-> "none", resp |-> NoResp]

InitAlerts ==
  /\ HAS_KEY = FALSE
  /\ server = "server.js"
  /\ now = 0
  /\ cache = [k \in CacheKeys |-> NoEntry]
  /\ req = [r \in AlertSlots |-> IdleAlertReq]
  /\ nRequests = 0
  /\ nUpstream = 0
  /\ memo = Memo({})
  /\ PureIdle
  /\ HAS_SMTP \in BOOLEAN
  /\ ALERTS_FILE = <<>>
  /\ outbox = <<>>

\* request r of the trigger handler after the loop stopped at run.at: it
\* awaits the mail about that alert, or saves its list and answers
triggerStep(r, kind, rates, run, emailsSent) ==
  IF run.at <= Len(run.alerts)
  THEN /\ req' = [req EXCEPT ![r] = [pc |-> "mailing", kind |-> kind, rates |-> rates,
                                      run |-> run, emailsSent |-> emailsSent,
                                      resp |-> NoResp]]
       /\ UNCHANGED ALERTS_FILE
  ELSE /\ ALERTS_FILE' = saveAlerts(run.alerts)
       /\ req' = [req EXCEPT ![r] = [pc |-> "done", kind |-> kind,
                                      resp |-> triggerResponse(run, emailsSent)]]

\* POST /api/alerts/trigger arrives
TriggerRequest(r) ==
  /\ CanStart(r)
  /\ r \in AlertSlots
  /\ nRequests' = r
  /\ LET f30   == fetchStart(cache, FRED_SERIES.rate_30yr, now)
         f15   == fetchStart(f30.cache, FRED_SERIES.rate_15yr, now)
         rates == currentRates(f30.res.rec.value, f15.res.rec.value, 10 * Arm51(f30.res.rec))
     IN  /\ cache' = f15.cache
         /\ triggerStep(r, "trigger", rates,
                        triggerLoop(loadAlerts(ALERTS_FILE), 1, 0, rates, HAS_SMTP), 0)
  /\ UNCHANGED <<HAS_KEY, server, memo, now, nUpstream, call, ret, HAS_SMTP, outbox>>

\* the mail of trigger request r is accepted (ok) or refused, and the loop
\* goes on
TriggerMailed(r, ok) ==
  /\ req[r].pc = "mailing"
  /\ req[r].kind = "trigger"
  /\ LET run == req[r].run
     IN  /\ outbox' = IF ok THEN Append(outbox, triggerMail(run.alerts[run.at], r)) ELSE outbox
         /\ triggerStep(r, "trigger", req[r].rates,
                        triggerLoop(run.alerts, run.at + 1, run.triggered, req[r].rates, HAS_SMTP),
                        req[r].emailsSent + (IF ok THEN 1 ELSE 0))
  /\ UNCHANGED <<HAS_KEY, server, memo, now, cache, nRequests, nUpstream, call, ret, HAS_SMTP>>

\* POST /api/alerts/subscribe arrives
SubscribeRequest(r, body) ==
  /\ CanStart(r)
  /\ r \in AlertSlots
  /\ nRequests' = r
  /\ LET s == subscribe(ALERTS_FILE, r, body.email, body.targetRate, body.loanType, HAS_SMTP)
     IN  /\ ALERTS_FILE' = s.file
         /\ req' = [req EXCEPT ![r] = [pc |-> IF s.await THEN "mailing" ELSE "done",
                                        kind |-> "subscribe", body |-> body,
                                        resp |-> IF s.await THEN NoResp ELSE s.resp]]
  /\ UNCHANGED <<HAS_KEY, server, memo, now, cache, nUpstream, call, ret, HAS_SMTP, outbox>>

\* the confirmation of subscribe request r is accepted, or refused and the
\* catch answers 500
SubscribeMailed(r, ok) ==
  /\ req[r].pc = "mailing"
  /\ req[r].kind = "subscribe"
  /\ outbox' = IF ok THEN Append(outbox, confirmMail(req[r].body.email, r)) ELSE outbox
  /\ req' = [req EXCEPT ![r].pc = "done",
                        ![r].resp = IF ok THEN [status |-> 200, message |-> "Alert created"]
                                    ELSE [status |-> 500, error |-> "mail"]]
  /\ UNCHANGED <<HAS_KEY, server, memo, now, cache, nRequests, nUpstream, call, ret,
                 HAS_SMTP, ALERTS_FILE>>

\* DELETE /api/alerts/unsubscribe arrives
UnsubscribeRequest(r, email, token) ==
  /\ CanStart(r)
  /\ r \in AlertSlots
  /\ nRequests' = r
  /\ LET u == unsubscribe(ALERTS_FILE, email, token)
     IN  /\ ALERTS_FILE' = u.file
         /\ req' = [req EXCEPT ![r] = [pc |-> "done", kind |-> "unsubscribe",
                                        resp |-> u.resp]]
  /\ UNCHANGED <<HAS_KEY, server, memo, now, cache, nUpstream, call, ret, HAS_SMTP, outbox>>

\* GET /api/alerts/verify arrives
VerifyRequest(r, token, action) ==
  /\ CanStart(r)
  /\ r \in AlertSlots
  /\ nRequests' = r
  /\ LET v == verify(ALERTS_FILE, token, action)
     IN  /\ ALERTS_FILE' = v.file
         /\ req' = [req EXCEPT ![r] = [pc |-> "done", kind |-> "verify", resp |-> v.resp]]
  /\ UNCHANGED <<HAS_KEY, server, memo, now, cache, nUpstream, call, ret, HAS_SMTP, outbox>>

NextAlerts ==
  \E r \in AlertSlots :
    \/ TriggerRequest(r)
    \/ \E ok \in BOOLEAN : TriggerMailed(r, ok)
    \/ \E body \in SubscribeBodies : SubscribeRequest(r, body)
    \/ \E ok \in BOOLEAN : SubscribeMailed(r, ok)
    \/ \E email \in AlertEmails, other \in AlertEmails :
         UnsubscribeRequest(r, email, makeToken(other))
    \/ \E email \in AlertEmails, action \in {"unsubscribe", "resubscribe"} :
         VerifyRequest(r, makeToken(email), action)

SpecAlerts == InitAlerts /\ [][NextAlerts]_vars
-----------------------------------------------------------------------------
(* The rates endpoints of server.js with an API key, on three requests:    *)
(* each is GET /api/rates/30yr, /api/rates/treasury10 or one of the        *)
(* aggregate endpoints, and time passes between them.                      *)

MaxServed == 3

ServeSlots == 1..MaxServed

InitServe ==
  /\ HAS_KEY = TRUE
  /\ server = "server.js"
  /\ now = 0
  /\ cache = [k \in CacheKeys |-> NoEntry]
  /\ req = [r \in ServeSlots |-> IdleReq]
  /\ nRequests = 0
  /\ nUpstream = 0
  /\ memo = Memo(FeedValues)
  /\ PureIdle
  /\ NoAlerts

NextServe ==
  \/ Tick
  \/ \E r \in ServeSlots, type \in {"30yr", "treasury10"} : StartType(r, type)
  \/ \E r \in ServeSlots, kind \in AggKinds : StartAggregate(r, kind)
  \/ \E r \in ServeSlots, id \in AllIds, answer \in UpstreamAnswers :
        UpstreamRespond(r, id, answer)

SpecServe == InitServe /\ [][NextServe]_vars
-----------------------------------------------------------------------------
(* Properties of the resolver and the rates endpoints (Spec).              *)

\* C1: single-flight - at most one upstream request for a series id is in
\* flight at a time, however many fetchFredSeries calls for it overlap
C1_SingleFlight ==
  \A id \in AllIds :
     Cardinality({r \in Slots : req[r].res[id].st = "pending"}) <= 1

\* C2: a fetchFredSeries call whose upstream request fails, times out or
\* yields no usable observation leaves the cache as it was; with a key, a
\* series entry changes only when a call has just resolved with that record,
\* and every series entry holds a complete record
C2_FailureLeavesCache ==
  /\ [][\A r \in Slots, id \in AllIds :
          (req[r].res[id].st = "pending" /\ req'[r].res[id].st = "error")
             => cache' = cache]_vars
  /\ [][\A id \in AllIds :
          (HAS_KEY /\ cache'[CacheKey(id)] # cache[CacheKey(id)])
             => \E r \in Slots :
                  /\ req[r].res[id].st = "pending"
                  /\ req'[r].res[id].st = "live"
                  /\ Usable(req'[r].res[id].answer.observations) # <<>>
                  /\ cache'[CacheKey(id)].v = req'[r].res[id].rec]_vars
  /\ [](\A id \in AllIds :
          cache[CacheKey(id)].set =>
             LET v == cache[CacheKey(id)].v
             IN  /\ DOMAIN v = {"seriesId", "value", "change", "date", "history"}
                 /\ v.seriesId = id
                 /\ v.value # NaN
                 /\ v.change # NaN
                 /\ Len(v.history) >= 1)

\* one request whose calls ended all three ways: a record cached, a failed
\* upstream request and an empty answer, neither of which left an entry
C2_Witness ==
  \E r \in Slots, a, b, c \in AllIds :
     /\ req[r].res[a].st = "live" /\ cache[CacheKey(a)].set
     /\ req[r].res[b].st = "error" /\ ~req[r].res[b].answer.ok
     /\ req[r].res[c].st = "error" /\ req[r].res[c].answer.ok
     /\ ~cache[CacheKey(b)].set /\ ~cache[CacheKey(c)].set

\* C3: a fetchFredSeries call made while the entry of its series id is within
\* one hour of being written returns the cached record, sends nothing
\* upstream and leaves the entry alone
C3_HitWithinTTL ==
  [][\A r \in Slots, id \in AllIds :
       (/\ req[r].pc = "idle"
        /\ req'[r].res[id].st # "none"
        /\ cache[CacheKey(id)].set
        /\ now <= cache[CacheKey(id)].at + 3600)
       => /\ req'[r].res[id].st = "hit"
          /\ req'[r].res[id].rec = cache[CacheKey(id)].v
          /\ req'[r].res[id].sent = 0
          /\ cache'[CacheKey(id)] = cache[CacheKey(id)]
          /\ nUpstream' = nUpstream
                + Cardinality({i \in AllIds : req'[r].res[i].st = "pending"})]_vars

\* a record fetched from FRED is served from the cache exactly one hour later
C3_Witness ==
  \E r \in Slots, id \in AllIds :
     /\ HAS_KEY
     /\ req[r].res[id].st = "hit"
     /\ cache[CacheKey(id)].set
     /\ req[r].res[id].at = cache[CacheKey(id)].at + 3600
     /\ nUpstream = 1

\* C4: without a key every fetchFredSeries call (known or unknown id) returns
\* the record of the static fallback table (the default for an unknown id),
\* which is in the cache, and nothing is ever sent upstream
C4_NoKeyFallback ==
  ~HAS_KEY =>
     /\ nUpstream = 0
     /\ \A r \in Slots, id \in AllIds :
          req[r].res[id].st # "none" =>
             /\ req[r].res[id].st \in {"hit", "fallback"}
             /\ LET keys == {k \in DOMAIN FRED_SERIES : FRED_SERIES[k] = id}
                    fb   == IF keys = {} THEN DefaultFallback
                            ELSE FALLBACK[CHOOSE k \in keys : TRUE]
                    rec  == req[r].res[id].rec
                IN  /\ rec.seriesId = id
                    /\ rec.value = fb.value
                    /\ rec.change = fb.change
                    /\ rec.date = fb.date
                    /\ cache[CacheKey(id)].set
                    /\ cache[CacheKey(id)].v = rec

\* C4 as far as it holds: the same, of server.js alone
C4_NoKeyFallbackServerJs == server = "server.js" => C4_NoKeyFallback

\* C5: with a key and FRED failing, the aggregate endpoints answer 200 with
\* the fallback record
C5_AggregateDegrades ==
  \A r \in Slots :
     (HAS_KEY /\ req[r].kind \in AggKinds /\ req[r].pc = "done")
        => req[r].resp.status = 200

\* C6: a failed or timed-out upstream request makes fetchFredSeries throw to
\* its caller, and /api/rates/:type answers 500 with no record
C6_FailureSurfaces ==
  \A r \in Slots, id \in AllIds :
     (/\ req[r].res[id].st # "none"
      /\ req[r].res[id].sent = 1
      /\ req[r].res[id].st # "pending"
      /\ ~req[r].res[id].answer.ok)
     => /\ req[r].res[id].st = "error"
        /\ req[r].pc = "done"
        /\ req[r].kind = "resolve" =>
              (req[r].resp.how = "threw" /\ "body" \notin DOMAIN req[r].resp)
        /\ req[r].kind = "type" =>
              /\ req[r].resp.how = "sent"
              /\ req[r].resp.status = 500
              /\ "body" \notin DOMAIN req[r].resp

\* /api/rates/:type answered 500 after its upstream request failed
C6_Witness ==
  \E r \in Slots, id \in AllIds :
     /\ req[r].kind = "type"
     /\ req[r].res[id].st = "error"
     /\ req[r].res[id].sent = 1
     /\ ~req[r].res[id].answer.ok
     /\ req[r].resp.status = 500

\* C7: with a key, a fetchFredSeries call that misses sends exactly one
\* upstream request; the record is computed from the observations whose
\* value is not "."; when none is left the call fails with the no-data error
\* and the cache is left as it was
C7_MissWithKey ==
  /\ [][\A r \in Slots, id \in AllIds :
          (/\ HAS_KEY
           /\ req[r].pc = "idle"
           /\ req'[r].res[id].st # "none"
           /\ ~(cache[CacheKey(id)].set /\ now <= cache[CacheKey(id)].at + 3600))
          => /\ req'[r].res[id].st = "pending"
             /\ req'[r].res[id].sent = 1
             /\ nUpstream' = nUpstream
                   + Cardinality({i \in AllIds : req'[r].res[i].st = "pending"})]_vars
  /\ [][\A r \in Slots, id \in AllIds :
          (req[r].res[id].st = "pending" /\ req'[r].res[id].st # "pending")
          => /\ req'[r].res[id].sent = 1
             /\ nUpstream' = nUpstream
             /\ LET answer == req'[r].res[id].answer
                    kept   == IF answer.ok
                              THEN SelectSeq(answer.observations,
                                             LAMBDA o : o.value # ".")
                              ELSE <<>>
                    res    == req'[r].res[id]
                IN  /\ (answer.ok /\ kept = <<>>) =>
                          /\ res.st = "error"
                          /\ res.error = "No data for " \o id
                          /\ cache' = cache
                    /\ kept # <<>> =>
                          /\ res.st = "live"
                          /\ res.rec.value = Milli(kept[1].value)
                          /\ res.rec.value # NaN
                          /\ res.rec.date = kept[1].date
                          /\ Len(res.rec.history) = (IF Len(kept) < 8 THEN Len(kept) ELSE 8)
                          /\ \A i \in 1..Len(res.rec.history) :
                                res.rec.history[i].value = Milli(kept[i].value)
                                   /\ res.rec.history[i].value # NaN]_vars

\* one call resolved from a feed that starts with a "." observation, another
\* failed on a feed of "." observations only
C7_Witness ==
  /\ nUpstream >= 2
  /\ \E r \in Slots, id \in AllIds :
        /\ req[r].res[id].st = "live"
        /\ req[r].res[id].answer.observations[1].value = "."
  /\ \E r \in Slots, id \in AllIds :
        /\ req[r].res[id].st = "error"
        /\ req[r].res[id].sent = 1
        /\ req[r].res[id].answer.ok
-----------------------------------------------------------------------------
(* Properties of deriveRates (SpecDerive).                                 *)

\* C8: for every benchmark rate, rate_jumbo30 minus rate_fha30 is exactly
\* 0.50 (50 hundredths)
C8_ExactHalf ==
  ret.done => ret.d.rate_jumbo30 - ret.d.rate_fha30 = 50

\* C8, amended: rate_jumbo30 minus rate_fha30 is 0.49, 0.50 or 0.51, and it
\* is 0.50 when the benchmark rate has at most two decimals
C8_HalfWithinCent ==
  ret.done =>
     /\ ret.d.rate_jumbo30 - ret.d.rate_fha30 \in {49, 50, 51}
     /\ call.base30 % 10 = 0 => ret.d.rate_jumbo30 - ret.d.rate_fha30 = 50

\* deriveRates ran on a two-decimal benchmark rate
C8_Witness ==
  /\ ret.done
  /\ call.base30 % 10 = 0
  /\ ret.d.rate_jumbo30 - ret.d.rate_fha30 = 50
  /\ ret.d.rate_fha30 * 10 = call.base30 - 250

-----------------------------------------------------------------------------
(* Properties of the loan entry points (SpecLoan).                         *)

\* C9: every entry point that takes price and down answers a request with
\* price - down <= 0 with the 400 error and no figures (or, where the
\* handler threw before it could answer, with its 500)
C9_NonPositivePrincipalRejected ==
  (ret.done /\ call.price - call.down <= 0)
     => /\ ret.status \in {400, 500}
        /\ ret.status = 500 => call.fn = "lenderQuotes"
        /\ DOMAIN ret = {"done", "status", "error"}

\* C10: pmi_required is true exactly when a pmi is charged, and a pmi is
\* charged exactly when principal / price * 100 > 80
C10_RequiredIffCharged ==
  (ret.done /\ call.fn = "calculate" /\ ret.status = 200)
     => /\ ret.pmi_required <=> ret.pmi > 0
        /\ ret.pmi > 0 <=> 100 * (call.price - call.down) > 80 * call.price

\* C10, amended: pmi_required is true exactly when principal / price * 100
\* is strictly above 80; then pmi is a twelfth of 1% of the principal to the
\* nearest cent (0.00 for a principal under 6), otherwise it is 0; at exactly
\* 80 pmi is 0 and pmi_required false; for a principal of 6 or more
\* pmi_required is true exactly when pmi is positive
C10_PmiAboveEighty ==
  (ret.done /\ call.fn = "calculate" /\ ret.status = 200)
     => LET principal == call.price - call.down
            over      == 100 * principal > 80 * call.price
        IN  /\ ret.pmi_required <=> over
            /\ ~over => ret.pmi = 0
            /\ over => (12 * ret.pmi - principal \in -6..6)
            /\ 100 * principal = 80 * call.price =>
                  (ret.pmi = 0 /\ ~ret.pmi_required /\ ret.ltv = 800)
            /\ principal >= 6 => (ret.pmi_required <=> ret.pmi > 0)
            /\ ret.pmi > 0 => ret.pmi_required

\* price 400000, down 80000: LTV is exactly 80
C10_Witness ==
  /\ ret.done
  /\ call.fn = "calculate"
  /\ call.price = 400000 /\ call.down = 80000
  /\ ret.status = 200
  /\ ret.ltv = 800
  /\ ret.pmi = 0
  /\ ~ret.pmi_required
-----------------------------------------------------------------------------
(* Properties of the amortization walk of /api/calculate (SpecAmort).      *)

\* C11: the schedule of a loan of n months holds exactly the months of 1..n
\* that are at most 24 or a multiple of 12, one row each in increasing
\* order, and the balance of the row of month i is the balance after walking
\* all of the months 1..i
C11_ThinnedRowsFullWalk ==
  ret.done =>
     LET n == call.term * 12
         s == ret.amortization
     IN  /\ {s[k].month : k \in 1..Len(s)}
              = {i \in 1..n : i <= 24 \/ i % 12 = 0}
         /\ \A k \in 1..(Len(s) - 1) : s[k].month < s[k + 1].month
         /\ \A k \in 1..Len(s) :
              s[k].balance = IF ret.walk[s[k].month] < 0 THEN 0
                             ELSE ret.walk[s[k].month]

\* a three-year loan at a positive rate: the row after month 24 is month 36,
\* and it carries the balance of month 36 while month 35 still owed money
C11_Witness ==
  /\ ret.done
  /\ call.term = 3
  /\ call.rate > 0
  /\ Len(ret.amortization) = 25
  /\ ret.amortization[25].month = 36
  /\ ret.amortization[25].balance = 0
  /\ ret.walk[35] > 0
  /\ ret.walk[25] > ret.walk[35]

\* C12: for every request that calculate accepts, the balance left after the
\* full walk is zero to the nearest cent (the principal portions add up to
\* the principal)
C12_WalkRepaysPrincipal ==
  (ret.done /\ ret.status = 200) => ret.balance \in -1..1

-----------------------------------------------------------------------------
(* Properties of /api/refinance and /api/affordability (SpecAdvice).       *)

\* C13: a refinance with positive monthly savings and closing_costs = 0 has
\* breakeven.months = 0 and worth_it = true
C13_FreeRefinanceWorthIt ==
  (ret.done /\ call.fn = "refinance" /\ ret.saves /\ call.closing_costs = 0)
     => /\ ret.breakeven.months = 0
        /\ ret.breakeven.worth_it

\* C14: breakeven months is ceil(closingCosts / monthlySavings) when the
\* monthly savings are positive and null when they are not, and worth_it is
\* true exactly when there is a breakeven month and it is smaller than the
\* new loan's term in months
C14_BreakevenAndWorthIt ==
  (ret.done /\ call.fn = "refinance") =>
     LET bal     == DNum(call.current_balance, 1)
         savings == DSub(pmt(bal, call.current_rate, call.remaining_term),
                         pmt(bal, call.new_rate, call.new_term))
     IN  /\ ret.breakeven.months
              = IF DPositive(savings)
                THEN DCeil(DDiv(DNum(call.closing_costs, 1), savings))
                ELSE Null
         /\ ret.breakeven.worth_it
              <=> /\ ret.breakeven.months # Null
                  /\ ret.breakeven.months < call.new_term * 12

\* C15: the conservative figures are the same whatever dti_limit the caller
\* gives (a budget of 28% of the monthly income, dti 28), and the
\* recommended figures use the caller's dti_limit
C15_ConservativeIgnoresDtiLimit ==
  (ret.done /\ call.fn = "affordability") =>
     /\ \A d \in DtiLimits :
          affordability(call.annual_income, call.monthly_debts,
                        call.down_payment, call.rate, call.term,
                        d).conservative = ret.conservative
     /\ ret.conservative.dti = 28
     /\ ret.conservative.monthly_payment
          = (2 * 28 * call.annual_income + 12) \div 24
     /\ ret.recommended.dti = call.dti_limit
     /\ ret.recommended.monthly_payment
          = (2 * call.dti_limit * call.annual_income + 12) \div 24
              - 100 * call.monthly_debts

\* an affordability call with a ceiling other than 28: the two branches
\* differ, and the conservative one is the 28% budget
C15_Witness ==
  /\ ret.done
  /\ call.fn = "affordability"
  /\ call.dti_limit = 43
  /\ call.monthly_debts = 0
  /\ ret.recommended.monthly_payment > ret.conservative.monthly_payment
  /\ ret.conservative.max_loan < ret.recommended.max_loan
  /\ ret.conservative.dti = 28

-----------------------------------------------------------------------------
(* Properties of /api/lender-quotes (SpecQuotes).                          *)

\* C16: a request answered again with the same arguments gets the same
\* response, field for field: the response is a function of the arguments
\* only, never of the time of the call
C16_SameArgumentsSameResponse ==
  [][(ret.done /\ ret'.done /\ call' = call) => ret' = ret]_vars

\* C17: every quote of every response has apr >= rate
C17_AprAtLeastRate ==
  (ret.done /\ ret.status = 200) =>
     \A k \in 1..Len(ret.quotes) : ret.quotes[k].apr >= ret.quotes[k].rate

\* C18: in a response of three or more quotes exactly one quote has the
\* badge "Lowest Rate" and its rate is the lowest of the set, at most one has
\* "Best Value" and at most one has "Lowest Fees"
C18_BadgesOfTheSortedSet ==
  (ret.done /\ ret.status = 200 /\ Len(ret.quotes) >= 3) =>
     LET q == ret.quotes
         with(badge) == {k \in 1..Len(q) : q[k].badge = badge}
     IN  /\ Cardinality(with("Lowest Rate")) = 1
         /\ Cardinality(with("Best Value")) <= 1
         /\ Cardinality(with("Lowest Fees")) <= 1
         /\ \A k \in with("Lowest Rate") :
              \A j \in 1..Len(q) : q[k].rate <= q[j].rate

\* C19: every quote's rate is baseRate + the state, credit, LTV and purpose
\* adjustments + the quote's lenderVar; a state the table does not list
\* adds 0.01; the purpose adds 0 for purchase, 0.10 for refinance, 0.30 for
\* cashout
C19_RateIsSumOfAdjustments ==
  (ret.done /\ ret.status = 200) =>
     LET a == ret.adjustments
     IN  /\ \A k \in 1..Len(ret.quotes) :
              ret.quotes[k].rate
                 = ret.baseRate + a.state + a.credit + a.ltv + a.purpose
                     + ret.quotes[k].lenderVar
         /\ a.state = CASE call.state = "CA" -> -30
                        [] call.state = "FL" -> 10
                        [] call.state = "TX" -> 20
                        [] OTHER -> 10
         /\ a.purpose = CASE call.purpose = "refinance" -> 100
                          [] call.purpose = "cashout" -> 300
                          [] OTHER -> 0

\* a cash-out request from ZZ: three tenths for the purpose, a hundredth for
\* the state, and quotes whose lenderVar differ
C19_Witness ==
  /\ ret.done
  /\ ret.status = 200
  /\ call.state = "ZZ"
  /\ call.purpose = "cashout"
  /\ ret.adjustments.state = 10
  /\ ret.adjustments.purpose = 300
  /\ Len(ret.quotes) = 8
  /\ ret.quotes[1].lenderVar < ret.quotes[8].lenderVar
  /\ ret.quotes[1].lenderVar = -120
  /\ ret.quotes[1].rate = ret.baseRate + 240

\* C20: every lender of a response has minCredit <= the creditScore asked
\* for, no lender appears twice, and the quotes are in ascending order of
\* rate
C20_EligibleOnceAscending ==
  (ret.done /\ ret.status = 200) =>
     LET q == ret.quotes
     IN  /\ \A k \in 1..Len(q) :
              \E l \in 1..Len(LENDERS) :
                 /\ LENDERS[l].id = q[k].lender
                 /\ LENDERS[l].minCredit <= call.creditScore
         /\ \A j, k \in 1..Len(q) : j # k => q[j].lender # q[k].lender
         /\ \A k \in 1..(Len(q) - 1) : q[k].rate <= q[k + 1].rate

\* a score of 600: only the three lenders that take 580 answer
C20_Witness ==
  /\ ret.done
  /\ ret.status = 200
  /\ call.creditScore = 600
  /\ {ret.quotes[k].lender : k \in 1..Len(ret.quotes)}
        = {"rocket", "guaranteed", "flagstar"}
  /\ ret.quotes[1].rate < ret.quotes[3].rate


\* C24: every request is answered with a successful response whose quotes
\* are those of the eligible lenders, an empty list when the credit score
\* is below every lender's minCredit; none is answered with an error
C24_NoLenderStillAnswers ==
  (ret.done /\ call.fn = "quote") =>
     /\ ret.status = 200
     /\ Len(ret.quotes) = Len(selected(call.state, call.creditScore))
-----------------------------------------------------------------------------
(* Agreement of the consumers of the benchmark rate (SpecAgree).           *)

-----------------------------------------------------------------------------
(* Properties of /api/rate-history (SpecHistory).                          *)

\* C21: a request answered without a live upstream, because no API key is
\* configured or because the request to FRED failed, gets the synthetic
\* series built on the fallback value, with status 200, never an error
C21_NoUpstreamSynthesizes ==
  (ret.done /\ (~HAS_KEY
                  \/ req[1].res[historySeriesId(call.series)].st = "error")) =>
     /\ ret.status = 200
     /\ ~ret.live
     /\ ret.data = syntheticPoints(FALLBACK.rate_30yr.value,
                                   pointCount(call.period))

\* C22: every response of status 200 has min, max, start, current and
\* change; start and current are the values of the first and the last point,
\* change is current - start, every point lies between min and max, and
\* there are no more points than the limit of the period
C22_SummaryOfSeries ==
  (ret.done /\ ret.status = 200) =>
     /\ {"min", "max", "start", "current", "change"} \subseteq DOMAIN ret
     /\ ret.data # <<>>
     /\ ret.start = ret.data[1].value
     /\ ret.current = ret.data[Len(ret.data)].value
     /\ ret.change = ret.current - ret.start
     /\ \A k \in 1..Len(ret.data) :
           ret.min <= ret.data[k].value /\ ret.data[k].value <= ret.max
     /\ Len(ret.data) <= historyLimit(call.period)

-----------------------------------------------------------------------------
(* The alert trigger and the alert store under concurrent requests.        *)

TriggerMails == {i \in DOMAIN outbox : outbox[i].kind = "trigger"}

AlertIds(file) == {file[i].id : i \in DOMAIN file}

\* the request that arrives in this step, if one does
Arriving == IF nRequests' = nRequests + 1 THEN req'[nRequests'].kind ELSE "none"

\* C25: under any interleaving of trigger runs, subscribes and unsubscribes,
\* an alert is sent at most one trigger mail, and only by a run whose current
\* rate for the alert's loan type is at or below the alert's target.
C25_AtMostOneTriggerMail ==
  /\ \A i \in TriggerMails, j \in TriggerMails : outbox[i].id = outbox[j].id => i = j
  /\ \A i \in TriggerMails : outbox[i].current <= outbox[i].target

\* C26: no update of the alert store is lost: an alert enters the file only
\* by a subscribe request, leaves it only by an unsubscribe or verify
\* request, and its target changes only by a subscribe request, whatever a
\* concurrent trigger run does.
C26_NoLostUpdate ==
  [][/\ AlertIds(ALERTS_FILE') \ AlertIds(ALERTS_FILE) # {} => Arriving = "subscribe"
     /\ AlertIds(ALERTS_FILE) \ AlertIds(ALERTS_FILE') # {}
          => Arriving \in {"unsubscribe", "verify"}
     /\ (\E i \in DOMAIN ALERTS_FILE, j \in DOMAIN ALERTS_FILE' :
           /\ ALERTS_FILE[i].id = ALERTS_FILE'[j].id
           /\ ALERTS_FILE[i].targetRate # ALERTS_FILE'[j].targetRate)
          => Arriving = "subscribe"]_vars
-----------------------------------------------------------------------------
(* The age of what the aggregate endpoints serve.                          *)

\* request r is answered in this step by an aggregate endpoint, with a body
Served(r) ==
  /\ req[r].pc # "done"
  /\ req'[r].pc = "done"
  /\ req'[r].kind \in AggKinds
  /\ req'[r].resp.status = 200

\* C27: with an API key, every series value an aggregate endpoint serves
\* (/api/rates, /api/rates/summary, /api/today-rates) was obtained from FRED
\* at most one TTL (3600 s) before the moment it is served.
C27_ServedWithinTTL ==
  [][\A r \in DOMAIN req :
       (HAS_KEY /\ Served(r))
       => \A id \in DOMAIN req'[r].resp.body.fetched :
             now - req'[r].resp.body.fetched[id] <= STD_TTL]_vars
=============================================================================
